---- MODULE Spec2Model ----
(***************************************************************************)
(* Model of the cardiac device integration's authentication layer:         *)
(* TokenCache, CredentialStorage (as the set of stored manufacturers),     *)
(* AuthenticationManager and the provider's is_token_valid.                *)
(*                                                                         *)
(* Time is counted in minutes.  get_valid_token and                        *)
(* refresh_token_if_needed are coroutines: each runs without interruption  *)
(* up to its await of the provider, where it is suspended and other        *)
(* operations may run; the provider then returns a token or raises.        *)
(*                                                                         *)
(* Further parts, each with a specification of its own: the retry loop of  *)
(* BaseHTTPClient._make_request (HttpSpec), the operations of              *)
(* BostonScientificClient (ClientSpec), DataValidator with                 *)
(* DataValidationRules (ValidatorSpec), DatabaseConnection (StoreSpec),    *)
(* and of DataIngestionPipeline the ingestion of a device (DeviceSpec), of *)
(* a patient (PatientSpec) and the continuous loop (LoopSpec); the file of *)
(* CredentialStorage with its JSON and encryption (CredentialSpec); and    *)
(* get_valid_token with providers of any token lifetime (ShortLivedSpec).  *)
(***************************************************************************)
EXTENDS Integers, Sequences, FiniteSets, TLC

\* ------------------------------------------------------------------ bounds
\* the clock runs from 0 to MaxTime minutes
MaxTime == 2
\* coroutines (get_valid_token, refresh_token_if_needed) that can be in flight at once
NumCalls == 2
\* minutes by which an issued token's lifetime exceeds the buffer
ExtraLifetime == 1

\* --------------------------------------------------------------- constants
\* timedelta(minutes=5), the buffer before the actual expiration
BufferMinutes == 5

Manufacturers == {"boston_scientific", "medtronic"}
Calls == 1..NumCalls

\* Optional[...]: None, or a one-element tuple holding the value
None == <<>>
Some(x) == <<x>>

\* AuthToken.expires_at = None
NoExpiry == -1

\* expires_in (minutes) of the tokens a provider issues, besides tokens without
\* expires_at; scaled down from the hour of the simulated provider so that a token
\* issued at t is live at t and reaches the buffer edge at t + ExtraLifetime.
ExpiresIn == {BufferMinutes + ExtraLifetime}

\* AuthToken: access_token is the time of issue (the provider derives it from
\* utcnow().timestamp()), expires_at is absolute.
AuthToken(issued, expires_at) ==
    [access_token |-> issued, expires_at |-> expires_at]

\* the tokens a provider can issue at time t
TokensIssuedAt(t) ==
    {AuthToken(t, t + d) : d \in ExpiresIn} \cup {AuthToken(t, NoExpiry)}

VARIABLES
    now,              \* datetime.utcnow(), in minutes
    all_credentials,  \* CredentialStorage: the manufacturers with stored credentials
    providers,        \* AuthenticationManager._providers: manufacturers registered
    tokens,           \* TokenCache._tokens: manufacturer -> AuthToken (a dict)
    calls,            \* the coroutines in flight: where each is suspended, its locals
    ev,               \* the step just taken: operation, arguments, what it returned
    http,             \* BaseHTTPClient._make_request: the call in progress or just ended
    client,           \* BostonScientificClient: the operation in progress or just ended
    validation,       \* DataValidator: the call just made and what came of it
    database,         \* DatabaseConnection: the rows of device_readings and device_alerts
    ingest,           \* DataIngestionPipeline: the ingestion in progress or just ended
    loop,             \* run_continuous_ingestion: where the loop is, what it slept
    storage           \* CredentialStorage: the key file and the encrypted credentials file

vars == <<now, all_credentials, providers, tokens, calls, ev, http, client, validation,
          database, ingest, loop, storage>>

\* ------------------------------------------------------------- TokenCache

\* dict.get: the entry of a dict, or None
Lookup(d, k) == IF k \in DOMAIN d THEN Some(d[k]) ELSE None

Del(d, k) == [x \in DOMAIN d \ {k} |-> d[x]]

_is_token_expired_strict(token, t) ==
    IF token.expires_at = NoExpiry THEN FALSE
    ELSE t + BufferMinutes > token.expires_at

_is_token_expired(token, t) ==
    IF token.expires_at = NoExpiry THEN FALSE
    ELSE t + BufferMinutes >= token.expires_at

store_token_dropped(toks, m, token) == toks

store_token(toks, m, token) ==
    [x \in DOMAIN toks \cup {m} |-> IF x = m THEN token ELSE toks[x]]

get_token_inverted(toks, m, t) ==
    LET token == Lookup(toks, m)
    IN  IF token # None /\ ~ _is_token_expired(token[1], t)
        THEN [tokens |-> Del(toks, m), ret |-> None]
        ELSE [tokens |-> toks, ret |-> token]

get_token_no_del(toks, m, t) ==
    LET token == Lookup(toks, m)
    IN  IF token # None /\ _is_token_expired(token[1], t)
        THEN [tokens |-> toks, ret |-> None]
        ELSE [tokens |-> toks, ret |-> token]

\* returns the dict after the call and the value returned
get_token(toks, m, t) ==
    LET token == Lookup(toks, m)
    IN  IF token # None /\ _is_token_expired(token[1], t)
        THEN [tokens |-> Del(toks, m), ret |-> None]
        ELSE [tokens |-> toks, ret |-> token]

remove_token(toks, m) ==
    IF m \in DOMAIN toks THEN Del(toks, m) ELSE toks

\* ------------------------------------------------------- CredentialStorage

load_credentials_any(creds, m) == Some(m)

\* the credential of a manufacturer is identified by the manufacturer
load_credentials(creds, m) ==
    IF m \notin creds THEN None ELSE Some(m)

delete_credentials(creds, m) ==
    IF m \in creds THEN creds \ {m} ELSE creds

\* ------------------------------------------------------------ the provider

is_token_valid_inclusive(token, t) ==
    IF token.expires_at = NoExpiry THEN TRUE
    ELSE t + BufferMinutes <= token.expires_at

is_token_valid(token, t) ==
    IF token.expires_at = NoExpiry THEN TRUE
    ELSE t + BufferMinutes < token.expires_at


\* --------------------------------------------------- AuthenticationManager

\* What a handler leaves behind when it returns or suspends: the cache, where the
\* coroutine is (pc "idle": it returned), the value returned, the message logged
\* last, the exception that propagates ("" when none), and how often it read the
\* credentials and called the provider's authenticate and refresh_token.
Outcome(toks, pc, ret, log, loads, auths, refreshes) ==
    [tokens |-> toks, pc |-> pc, ret |-> ret, log |-> log, exc |-> "",
     loads |-> loads, auths |-> auths, refreshes |-> refreshes]

\* get_valid_token up to its await of provider.authenticate
get_valid_token(toks, creds, provs, m, t) ==
    LET cached == get_token(toks, m, t)
        credentials == load_credentials(creds, m)
    IN  IF cached.ret # None
        THEN Outcome(cached.tokens, "idle", cached.ret, "Using cached token", 0, 0, 0)
        ELSE IF credentials = None
        THEN Outcome(cached.tokens, "idle", None, "No credentials found", 1, 0, 0)
        ELSE IF m \notin provs
        THEN Outcome(cached.tokens, "idle", None,
                     "No authentication provider registered", 1, 0, 0)
        ELSE Outcome(cached.tokens, "authenticate", None, "", 1, 1, 0)

\* get_valid_token after provider.authenticate returned token
get_valid_token_returned(toks, m, token, call) ==
    Outcome(store_token(toks, m, token), "idle", Some(token),
            "Successfully authenticated", call.loads, call.auths, call.refreshes)

\* get_valid_token after provider.authenticate raised
get_valid_token_raised(toks, m, call) ==
    Outcome(toks, "idle", None, "Authentication failed",
            call.loads, call.auths, call.refreshes)

refresh_token_if_needed_loads_first(toks, creds, provs, m, token, t) ==
    LET credentials == load_credentials(creds, m)
    IN  IF m \notin provs
        THEN Outcome(toks, "idle", None, "No authentication provider registered", 0, 0, 0)
        ELSE IF credentials = None
        THEN Outcome(toks, "idle", None, "No credentials found", 1, 0, 0)
        ELSE IF is_token_valid(token, t)
        THEN Outcome(toks, "idle", Some(token), "", 1, 0, 0)
        ELSE Outcome(toks, "refresh_token", None, "", 1, 0, 1)

\* refresh_token_if_needed up to its await of provider.refresh_token
refresh_token_if_needed(toks, creds, provs, m, token, t) ==
    LET credentials == load_credentials(creds, m)
    IN  IF m \notin provs
        THEN Outcome(toks, "idle", None, "No authentication provider registered", 0, 0, 0)
        ELSE IF is_token_valid(token, t)
        THEN Outcome(toks, "idle", Some(token), "", 0, 0, 0)
        ELSE IF credentials = None
        THEN Outcome(toks, "idle", None, "No credentials found", 1, 0, 0)
        ELSE Outcome(toks, "refresh_token", None, "", 1, 0, 1)

\* refresh_token_if_needed after provider.refresh_token returned new_token
refresh_token_if_needed_returned(toks, m, new_token, call) ==
    Outcome(store_token(toks, m, new_token), "idle", Some(new_token),
            "Token refreshed", call.loads, call.auths, call.refreshes)

\* refresh_token_if_needed after provider.refresh_token raised
refresh_token_if_needed_raised(toks, m, call) ==
    Outcome(remove_token(toks, m), "idle", None, "Token refresh failed",
            call.loads, call.auths, call.refreshes)

revoke_credentials_keeps_token(toks, creds, m) ==
    [all_credentials |-> delete_credentials(creds, m), tokens |-> toks]

revoke_credentials(toks, creds, m) ==
    [all_credentials |-> delete_credentials(creds, m),
     tokens |-> remove_token(toks, m)]

\* ---------------------------------------------------------- BaseHTTPClient
\* One call of _make_request is a loop of attempts.  Each attempt issues one
\* request and gets one of two things back: a response read in full (status,
\* headers and the body response.json() decoded), or an exception raised by
\* session.request or response.json() (timeout, connection reset, a body that
\* cannot be read).  Sleeps are counted in seconds.

\* the largest max_retries a call is made with (the default is 3)
MaxRetries == 3

\* response.headers.get('Retry-After', 60)
DefaultRetryAfter == 60

\* the Retry-After values a server sends, in seconds
RetryAfterSeconds == {2}

Statuses == {200, 401, 404, 429, 500}
Bodies == {"a", "b"}
Exceptions == {"TimeoutError", "ClientConnectionError"}

\* what an attempt gets back
Responses ==
    [kind : {"response"}, status : Statuses,
     retry_after : {None} \cup {Some(n) : n \in RetryAfterSeconds},
     body : Bodies, exc : {""}]
    \cup
    [kind : {"raise"}, status : {0}, retry_after : {None}, body : {""}, exc : Exceptions]

\* no call made yet
IdleHttp ==
    [pc |-> "idle", max_retries |-> 0, attempt |-> 0, seen |-> <<>>, sleeps |-> <<>>,
     last_exception |-> None, ret |-> None,
     exc |-> "", exc_status |-> 0, exc_body |-> "", exc_cause |-> ""]

\* the call enters its loop: last_exception = None, attempt = 0, first request issued
HttpCall(max_retries) ==
    [IdleHttp EXCEPT !.pc = "request", !.max_retries = max_retries]

\* await asyncio.sleep(seconds), then the next iteration issues the next request
HttpRetry(h, r, seconds, last_exception) ==
    [h EXCEPT !.seen = Append(@, r), !.sleeps = Append(@, seconds),
              !.attempt = @ + 1, !.last_exception = last_exception]

\* the call raises an exception of class cls
HttpRaise(h, r, cls, status, body, cause) ==
    [h EXCEPT !.pc = "done", !.seen = Append(@, r),
              !.exc = cls, !.exc_status = status, !.exc_body = body, !.exc_cause = cause]

\* return response_data
HttpReturn(h, r) ==
    [h EXCEPT !.pc = "done", !.seen = Append(@, r), !.ret = Some(r.body)]

\* Retry-After as the code reads it
retry_after(r) ==
    IF r.retry_after = None THEN DefaultRetryAfter ELSE r.retry_after[1]

\* mutant: a 429 backs off like a network failure
_make_request_backoff_on_429(h, r) ==
    IF r.kind = "raise" \/ r.status = 429 THEN
        IF h.attempt < h.max_retries
        THEN HttpRetry(h, r, 2 ^ h.attempt, Some(r.exc))
        ELSE HttpRaise(h, r, "APIError", 0, "", r.exc)
    ELSE IF r.status = 401 THEN HttpRaise(h, r, "AuthenticationError", 0, "", "")
    ELSE IF r.status >= 400 THEN HttpRaise(h, r, "APIError", r.status, r.body, "")
    ELSE HttpReturn(h, r)

\* mutant: a 401 is swallowed and retried like a network failure
_make_request_retries_401(h, r) ==
    IF r.kind = "raise" \/ r.status = 401 THEN
        IF h.attempt < h.max_retries
        THEN HttpRetry(h, r, 2 ^ h.attempt, Some(r.exc))
        ELSE HttpRaise(h, r, "APIError", 0, "", r.exc)
    ELSE IF r.status = 429 THEN
        IF h.attempt < h.max_retries
        THEN HttpRetry(h, r, retry_after(r), h.last_exception)
        ELSE HttpRaise(h, r, "RateLimitError", 0, "", "")
    ELSE IF r.status >= 400 THEN HttpRaise(h, r, "APIError", r.status, r.body, "")
    ELSE HttpReturn(h, r)

\* mutant: no check of response.status >= 400
_make_request_no_status_check(h, r) ==
    IF r.kind = "raise" THEN
        IF h.attempt < h.max_retries
        THEN HttpRetry(h, r, 2 ^ h.attempt, Some(r.exc))
        ELSE HttpRaise(h, r, "APIError", 0, "", r.exc)
    ELSE IF r.status = 429 THEN
        IF h.attempt < h.max_retries
        THEN HttpRetry(h, r, retry_after(r), h.last_exception)
        ELSE HttpRaise(h, r, "RateLimitError", 0, "", "")
    ELSE IF r.status = 401 THEN HttpRaise(h, r, "AuthenticationError", 0, "", "")
    ELSE HttpReturn(h, r)

\* mutant: a 5xx is retried with backoff like a network failure
_make_request_retries_5xx(h, r) ==
    IF r.kind = "raise" \/ r.status >= 500 THEN
        IF h.attempt < h.max_retries
        THEN HttpRetry(h, r, 2 ^ h.attempt, Some(r.exc))
        ELSE HttpRaise(h, r, "APIError", r.status, r.body, r.exc)
    ELSE IF r.status = 429 THEN
        IF h.attempt < h.max_retries
        THEN HttpRetry(h, r, retry_after(r), h.last_exception)
        ELSE HttpRaise(h, r, "RateLimitError", 0, "", "")
    ELSE IF r.status = 401 THEN HttpRaise(h, r, "AuthenticationError", 0, "", "")
    ELSE IF r.status >= 400 THEN HttpRaise(h, r, "APIError", r.status, r.body, "")
    ELSE HttpReturn(h, r)

\* mutant: the backoff grows linearly, 2 * attempt
_make_request_linear_backoff(h, r) ==
    IF r.kind = "raise" THEN
        IF h.attempt < h.max_retries
        THEN HttpRetry(h, r, 2 * h.attempt, Some(r.exc))
        ELSE HttpRaise(h, r, "APIError", 0, "", r.exc)
    ELSE IF r.status = 429 THEN
        IF h.attempt < h.max_retries
        THEN HttpRetry(h, r, retry_after(r), h.last_exception)
        ELSE HttpRaise(h, r, "RateLimitError", 0, "", "")
    ELSE IF r.status = 401 THEN HttpRaise(h, r, "AuthenticationError", 0, "", "")
    ELSE IF r.status >= 400 THEN HttpRaise(h, r, "APIError", r.status, r.body, "")
    ELSE HttpReturn(h, r)

\* one iteration of the loop of _make_request, from the request issued to its
\* continue, return or raise; the raise after the loop belongs to the last one
_make_request(h, r) ==
    IF r.kind = "raise" THEN
        \* except Exception as e
        IF h.attempt < h.max_retries
        THEN HttpRetry(h, r, 2 ^ h.attempt, Some(r.exc))
        ELSE HttpRaise(h, r, "APIError", 0, "", r.exc)
    ELSE IF r.status = 429 THEN
        IF h.attempt < h.max_retries
        THEN HttpRetry(h, r, retry_after(r), h.last_exception)
        ELSE HttpRaise(h, r, "RateLimitError", 0, "", "")
    ELSE IF r.status = 401 THEN HttpRaise(h, r, "AuthenticationError", 0, "", "")
    ELSE IF r.status >= 400 THEN HttpRaise(h, r, "APIError", r.status, r.body, "")
    ELSE HttpReturn(h, r)

\* ------------------------------------------------------------------ state

IdleCall ==
    [pc |-> "idle", m |-> "boston_scientific", loads |-> 0, auths |-> 0, refreshes |-> 0]

\* the coroutine after a handler's step: back to idle, or suspended with its locals
CallAfter(r, m) ==
    IF r.pc = "idle" THEN IdleCall
    ELSE [pc |-> r.pc, m |-> m,
          loads |-> r.loads, auths |-> r.auths, refreshes |-> r.refreshes]

\* the record of a step: op is the operation, m its manufacturer, token the token
\* argument (refresh_token_if_needed) or the token looked up (get_token), done
\* whether the operation returned in this step (FALSE: it was suspended)
Event(op, m, token, r) ==
    [op |-> op, m |-> m, token |-> token, done |-> r.pc = "idle",
     ret |-> r.ret, log |-> r.log, exc |-> r.exc,
     loads |-> r.loads, auths |-> r.auths, refreshes |-> r.refreshes]

Plain(toks) == Outcome(toks, "idle", None, "", 0, 0, 0)

\* the record of a step that returns nothing and touches no token
Quiet == Event("-", "boston_scientific", None, Plain(<<>>))

\* the tokens a caller can pass: one the cache holds, or the one returned last
HeldTokens == {tokens[m] : m \in DOMAIN tokens} \cup {ev.ret[i] : i \in DOMAIN ev.ret}

\* a new coroutine takes the first free slot (the slots are interchangeable)
FreeSlot(c) ==
    /\ calls[c].pc = "idle"
    /\ \A d \in Calls : d < c => calls[d].pc # "idle"

AllIdle == \A c \in Calls : calls[c].pc = "idle"

\* ---------------------------------------------------- BostonScientificClient
\* the operations of DeviceAPIClient
Operations ==
    {"get_patient_devices", "get_device_readings", "get_recent_readings",
     "get_device_alerts", "acknowledge_alert", "get_device_status"}

\* the client's manufacturer: super().__init__("boston_scientific", auth_manager)
ClientManufacturer == "boston_scientific"

\* the client: pc "none" before it is constructed, "authenticate" while its
\* operation is suspended in get_valid_token, "done" when the operation ended;
\* asked, refreshes, vendor_calls count the operation's calls of get_valid_token,
\* of refresh_token_if_needed and of the vendor API; issued counts how often the
\* operation's body ran; no_token tells that it raised AuthenticationError
NoClient ==
    [pc |-> "none", op |-> "", call |-> IdleCall, asked |-> 0, refreshes |-> 0,
     vendor_calls |-> 0, issued |-> 0, no_token |-> FALSE, ret |-> "", exc |-> ""]

\* an operation is entered: its body runs up to the return of get_valid_token
operation_called(op, call) ==
    [NoClient EXCEPT !.pc = "authenticate", !.op = op, !.call = call,
                     !.asked = 1, !.issued = 1]

\* an operation from the return of get_valid_token to its end: without a token
\* it raises AuthenticationError inside its try block, and the except Exception
\* of the same block turns that into APIError, or into the return value False in
\* acknowledge_alert; with a token it calls the vendor and returns the result.
\* get_recent_readings is get_device_readings over the last hours.
operation(cl, token) ==
    IF token = None
    THEN IF cl.op = "acknowledge_alert"
         THEN [cl EXCEPT !.pc = "done", !.call = IdleCall, !.no_token = TRUE,
                         !.ret = "False"]
         ELSE [cl EXCEPT !.pc = "done", !.call = IdleCall, !.no_token = TRUE,
                         !.exc = "APIError"]
    ELSE [cl EXCEPT !.pc = "done", !.call = IdleCall, !.vendor_calls = @ + 1,
                    !.ret = IF cl.op = "acknowledge_alert" THEN "True" ELSE "data"]

\* ------------------------------------------------------------ DataValidator
\* A DeviceReading is its fields device_id, patient_id, reading_type, value,
\* unit and timestamp; an empty string stands for a str field that is empty or
\* None, and value and timestamp are Optional.  Values and range limits are in
\* hundredths of the unit, so that 0.25 V is 25 and 72 bpm is 7200.

\* the readings of a batch
MaxBatch == 2

\* DataValidationRules.NORMAL_RANGES
NORMAL_RANGES ==
    ("heart_rate" :> [min |-> 3000, max |-> 20000, unit |-> "bpm"]) @@
    ("battery_voltage" :> [min |-> 200, max |-> 350, unit |-> "V"]) @@
    ("lead_impedance" :> [min |-> 20000, max |-> 200000, unit |-> "ohms"]) @@
    ("sensing_threshold" :> [min |-> 50, max |-> 1000, unit |-> "mV"]) @@
    ("pacing_threshold" :> [min |-> 25, max |-> 500, unit |-> "V"]) @@
    ("episode_count" :> [min |-> 0, max |-> 100000, unit |-> "count"])

\* the reading types tried: those of the table and one outside it
ReadingTypes == DOMAIN NORMAL_RANGES \cup {"temperature"}

\* the values tried for a reading type: absent, the limits of its range and their
\* neighbours, and for heart_rate the 72 and 250 bpm of the validation test
Values(t) ==
    {None} \cup
    (IF t \in DOMAIN NORMAL_RANGES
     THEN {Some(NORMAL_RANGES[t].min - 1), Some(NORMAL_RANGES[t].min),
           Some(NORMAL_RANGES[t].max), Some(NORMAL_RANGES[t].max + 1)}
     ELSE {Some(0)})
    \cup (IF t = "heart_rate" THEN {Some(7200), Some(25000)} ELSE {})

\* the units tried for a reading type: missing, the table's, and another one
Units(t) ==
    {"", "mmHg"} \cup (IF t \in DOMAIN NORMAL_RANGES THEN {NORMAL_RANGES[t].unit} ELSE {})

\* the DeviceReading objects tried
DeviceReading ==
    UNION {[device_id : {"", "TEST-001"}, patient_id : {"", "PAT001"},
            reading_type : {t}, value : Values(t), unit : Units(t),
            timestamp : {None, Some(0)}] : t \in ReadingTypes}

\* the readings batches are made of
BatchReadings ==
    {r \in DeviceReading :
        /\ r.reading_type = "heart_rate" /\ r.unit = "bpm"
        /\ r.patient_id # "" /\ r.timestamp # None
        /\ r.value \in {None, Some(7200), Some(25000)}}

Batches == UNION {[1..n -> BatchReadings] : n \in 0..MaxBatch}

\* a violation string: kind is its fixed text, the other fields what the
\* f-string interpolates
Violation(kind, reading_type, value, limit, unit) ==
    [kind |-> kind, reading_type |-> reading_type, value |-> value,
     limit |-> limit, unit |-> unit]

Missing(field) == Violation(field, "", 0, 0, "")

\* what a call leaves: the exception that propagates ("" when none), else the list
Returned(ret) == [exc |-> "", ret |-> ret]
Raised(exc) == [exc |-> exc, ret |-> <<>>]

\* mutant: the limits themselves count as outside the range
DataValidationRules_validate_reading_inclusive(reading) ==
    IF reading.reading_type \notin DOMAIN NORMAL_RANGES THEN Returned(<<>>)
    ELSE IF reading.value = None THEN Raised("TypeError")
    ELSE
        LET range_info == NORMAL_RANGES[reading.reading_type]
            value == reading.value[1]
        IN  Returned(
              (IF value <= range_info.min
               THEN <<Violation("below normal range", reading.reading_type, value,
                                range_info.min, range_info.unit)>>
               ELSE <<>>)
              \o
              (IF value >= range_info.max
               THEN <<Violation("above normal range", reading.reading_type, value,
                                range_info.max, range_info.unit)>>
               ELSE <<>>)
              \o
              (IF reading.unit # range_info.unit
               THEN <<Violation("Unit mismatch", reading.reading_type, 0, 0,
                                reading.unit)>>
               ELSE <<>>))

\* DataValidationRules.validate_reading: comparing a value of None with a
\* number raises TypeError
DataValidationRules_validate_reading(reading) ==
    IF reading.reading_type \notin DOMAIN NORMAL_RANGES THEN Returned(<<>>)
    ELSE IF reading.value = None THEN Raised("TypeError")
    ELSE
        LET range_info == NORMAL_RANGES[reading.reading_type]
            value == reading.value[1]
        IN  Returned(
              (IF value < range_info.min
               THEN <<Violation("below normal range", reading.reading_type, value,
                                range_info.min, range_info.unit)>>
               ELSE <<>>)
              \o
              (IF value > range_info.max
               THEN <<Violation("above normal range", reading.reading_type, value,
                                range_info.max, range_info.unit)>>
               ELSE <<>>)
              \o
              (IF reading.unit # range_info.unit
               THEN <<Violation("Unit mismatch", reading.reading_type, 0, 0,
                                reading.unit)>>
               ELSE <<>>))

\* the presence checks of DataValidator.validate_reading, in their order
presence_violations(reading) ==
    (IF reading.device_id = "" THEN <<Missing("Missing device_id")>> ELSE <<>>)
    \o (IF reading.patient_id = "" THEN <<Missing("Missing patient_id")>> ELSE <<>>)
    \o (IF reading.value = None THEN <<Missing("Missing reading value")>> ELSE <<>>)
    \o (IF reading.unit = "" THEN <<Missing("Missing unit")>> ELSE <<>>)
    \o (IF reading.timestamp = None THEN <<Missing("Missing timestamp")>> ELSE <<>>)

\* mutant: validation stops at the first check that finds something
validate_reading_short_circuit(validation_enabled, reading) ==
    IF ~validation_enabled THEN Returned(<<>>)
    ELSE
        LET presence == presence_violations(reading)
            range_violations == DataValidationRules_validate_reading(reading)
        IN  IF presence # <<>> THEN Returned(<<Head(presence)>>)
            ELSE IF range_violations.exc # "" THEN Raised(range_violations.exc)
            ELSE Returned(SubSeq(range_violations.ret, 1, 1))

\* DataValidator.validate_reading
validate_reading(validation_enabled, reading) ==
    IF ~validation_enabled THEN Returned(<<>>)
    ELSE
        LET presence == presence_violations(reading)
            range_violations == DataValidationRules_validate_reading(reading)
        IN  IF range_violations.exc # "" THEN Raised(range_violations.exc)
            ELSE Returned(presence \o range_violations.ret)

\* DataValidator.validate_readings_batch: the dict's key "reading_{i}" is i
validate_readings_batch(validation_enabled, readings) ==
    LET violations(i) == validate_reading(validation_enabled, readings[i + 1])
        indices == 0..(Len(readings) - 1)
    IN  IF \E i \in indices : violations(i).exc # ""
        THEN Raised("TypeError")
        ELSE Returned([i \in {j \in indices : violations(j).ret # <<>>} |->
                          violations(i).ret])

\* a call of the validator: the method, its arguments, and once it ended
\* (pc "returned") what it returned or raised; validate_readings_batch returns
\* a dict, the other two a list
ValidatorCall(op, validation_enabled, readings) ==
    [pc |-> "called", op |-> op, validation_enabled |-> validation_enabled,
     readings |-> readings, exc |-> "", ret |-> <<>>]

\* the calls made
ValidatorCalls ==
    {ValidatorCall("validate_reading", e, <<r>>) : e \in BOOLEAN, r \in DeviceReading}
    \cup {ValidatorCall("DataValidationRules.validate_reading", TRUE, <<r>>) :
            r \in DeviceReading}
    \cup {ValidatorCall("validate_readings_batch", e, rs) : e \in BOOLEAN, rs \in Batches}

\* a new AuthenticationManager: empty credential store, no provider, empty cache
AuthenticationManagerInit ==
    /\ now = 0
    /\ all_credentials = {}
    /\ providers = {}
    /\ tokens = <<>>
    /\ calls = [c \in Calls |-> IdleCall]
    /\ ev = Quiet

\* the authentication layer on its own: no HTTP client, no manufacturer client
\* and no validator has been made
Init ==
    /\ AuthenticationManagerInit
    /\ http = None
    /\ client = None
    /\ validation = None
    /\ database = None
    /\ ingest = None
    /\ loop = None
    /\ storage = None

\* ---------------------------------------------------------------- actions

\* AuthenticationManager.store_credentials
StoreCredentials(m) ==
    /\ all_credentials' = all_credentials \cup {m}
    /\ ev' = Quiet
    /\ UNCHANGED <<now, providers, tokens, calls, http, client, validation, database, ingest, loop, storage>>

\* AuthenticationManager.register_provider
RegisterProvider(m) ==
    /\ providers' = providers \cup {m}
    /\ ev' = Quiet
    /\ UNCHANGED <<now, all_credentials, tokens, calls, http, client, validation, database, ingest, loop, storage>>

\* AuthenticationManager.revoke_credentials
RevokeCredentials(m) ==
    LET r == revoke_credentials(tokens, all_credentials, m)
    IN  /\ all_credentials' = r.all_credentials
        /\ tokens' = r.tokens
        /\ ev' = Event("revoke_credentials", m, Lookup(tokens, m), Plain(r.tokens))
        /\ UNCHANGED <<now, providers, calls, http, client, validation, database, ingest, loop, storage>>

\* CredentialStorage.delete_credentials, called on the manager's credential_storage
DeleteCredentials(m) ==
    /\ all_credentials' = delete_credentials(all_credentials, m)
    /\ ev' = Quiet
    /\ UNCHANGED <<now, providers, tokens, calls, http, client, validation, database, ingest, loop, storage>>

\* TokenCache.get_token, called on the manager's token_cache
GetToken(m) ==
    LET r == get_token(tokens, m, now)
    IN  /\ tokens' = r.tokens
        /\ ev' = Event("get_token", m, Lookup(tokens, m),
                       Outcome(r.tokens, "idle", r.ret, "", 0, 0, 0))
        /\ UNCHANGED <<now, all_credentials, providers, calls, http, client, validation, database, ingest, loop, storage>>

\* a call of get_valid_token, to its return or to its await
GetValidToken(c, m) ==
    /\ FreeSlot(c)
    /\ LET r == get_valid_token(tokens, all_credentials, providers, m, now)
       IN  /\ tokens' = r.tokens
           /\ calls' = [calls EXCEPT ![c] = CallAfter(r, m)]
           /\ ev' = Event("get_valid_token", m, None, r)
    /\ UNCHANGED <<now, all_credentials, providers, http, client, validation, database, ingest, loop, storage>>

\* provider.authenticate returns a token issued now
AuthenticateReturns(c) ==
    /\ calls[c].pc = "authenticate"
    /\ \E token \in TokensIssuedAt(now) :
         LET r == get_valid_token_returned(tokens, calls[c].m, token, calls[c])
         IN  /\ tokens' = r.tokens
             /\ calls' = [calls EXCEPT ![c] = IdleCall]
             /\ ev' = Event("authenticate_returns", calls[c].m, None, r)
    /\ UNCHANGED <<now, all_credentials, providers, http, client, validation, database, ingest, loop, storage>>

\* provider.authenticate raises
AuthenticateRaises(c) ==
    /\ calls[c].pc = "authenticate"
    /\ LET r == get_valid_token_raised(tokens, calls[c].m, calls[c])
       IN  /\ tokens' = r.tokens
           /\ calls' = [calls EXCEPT ![c] = IdleCall]
           /\ ev' = Event("authenticate_raises", calls[c].m, None, r)
    /\ UNCHANGED <<now, all_credentials, providers, http, client, validation, database, ingest, loop, storage>>

\* a call of refresh_token_if_needed with a token the caller holds
RefreshTokenIfNeeded(c, m, token) ==
    /\ FreeSlot(c)
    /\ LET r == refresh_token_if_needed(tokens, all_credentials, providers, m, token, now)
       IN  /\ tokens' = r.tokens
           /\ calls' = [calls EXCEPT ![c] = CallAfter(r, m)]
           /\ ev' = Event("refresh_token_if_needed", m, Some(token), r)
    /\ UNCHANGED <<now, all_credentials, providers, http, client, validation, database, ingest, loop, storage>>

\* provider.refresh_token returns a token issued now
RefreshReturns(c) ==
    /\ calls[c].pc = "refresh_token"
    /\ \E new_token \in TokensIssuedAt(now) :
         LET r == refresh_token_if_needed_returned(tokens, calls[c].m, new_token, calls[c])
         IN  /\ tokens' = r.tokens
             /\ calls' = [calls EXCEPT ![c] = IdleCall]
             /\ ev' = Event("refresh_returns", calls[c].m, None, r)
    /\ UNCHANGED <<now, all_credentials, providers, http, client, validation, database, ingest, loop, storage>>

\* provider.refresh_token raises
RefreshRaises(c) ==
    /\ calls[c].pc = "refresh_token"
    /\ LET r == refresh_token_if_needed_raised(tokens, calls[c].m, calls[c])
       IN  /\ tokens' = r.tokens
           /\ calls' = [calls EXCEPT ![c] = IdleCall]
           /\ ev' = Event("refresh_raises", calls[c].m, None, r)
    /\ UNCHANGED <<now, all_credentials, providers, http, client, validation, database, ingest, loop, storage>>

\* a minute passes
Tick ==
    /\ now < MaxTime
    /\ now' = now + 1
    /\ ev' = Quiet
    /\ UNCHANGED <<all_credentials, providers, tokens, calls, http, client, validation, database, ingest, loop, storage>>

\* an operation is called
Start ==
    \E m \in Manufacturers :
        \/ StoreCredentials(m)
        \/ RegisterProvider(m)
        \/ RevokeCredentials(m)
        \/ DeleteCredentials(m)
        \/ GetToken(m)
        \/ \E c \in Calls : GetValidToken(c, m)
        \/ \E c \in Calls : \E token \in HeldTokens : RefreshTokenIfNeeded(c, m, token)

\* a suspended coroutine is resumed by its provider
Resume ==
    \E c \in Calls :
        \/ AuthenticateReturns(c)
        \/ AuthenticateRaises(c)
        \/ RefreshReturns(c)
        \/ RefreshRaises(c)

Next == Start \/ Resume \/ Tick

\* operations may overlap at their awaits
Spec == Init /\ [][Next]_vars

\* --------------------------------------------- a provider of short-lived tokens
\* AuthenticationProvider.authenticate is abstract: expires_at comes from the
\* expires_in of the token endpoint's response, which may be any lifetime.

\* expires_in (minutes) of tokens that are inside the buffer when issued
ShortExpiresIn == {ExtraLifetime, BufferMinutes}

\* provider.authenticate returns a token issued now that expires within the buffer
AuthenticateReturnsShortLived(c) ==
    /\ calls[c].pc = "authenticate"
    /\ \E token \in {AuthToken(now, now + d) : d \in ShortExpiresIn} :
         LET r == get_valid_token_returned(tokens, calls[c].m, token, calls[c])
         IN  /\ tokens' = r.tokens
             /\ calls' = [calls EXCEPT ![c] = IdleCall]
             /\ ev' = Event("authenticate_returns", calls[c].m, None, r)
    /\ UNCHANGED <<now, all_credentials, providers, http, client, validation, database,
                   ingest, loop, storage>>

ShortLivedNext ==
    \/ \E m \in Manufacturers : StoreCredentials(m)
    \/ \E m \in Manufacturers : RegisterProvider(m)
    \/ \E m \in Manufacturers : \E c \in Calls : GetValidToken(c, m)
    \/ \E c \in Calls : AuthenticateReturns(c)
    \/ \E c \in Calls : AuthenticateReturnsShortLived(c)
    \/ \E c \in Calls : AuthenticateRaises(c)
    \/ Tick

\* get_valid_token with providers of any token lifetime
ShortLivedSpec == Init /\ [][ShortLivedNext]_vars

\* operations are called one at a time: none starts while a coroutine is suspended
SeqStart ==
    \E m \in Manufacturers :
        \/ AllIdle /\ StoreCredentials(m)
        \/ AllIdle /\ RegisterProvider(m)
        \/ AllIdle /\ RevokeCredentials(m)
        \/ AllIdle /\ DeleteCredentials(m)
        \/ AllIdle /\ GetToken(m)
        \/ AllIdle /\ \E c \in Calls : GetValidToken(c, m)
        \/ AllIdle /\ \E c \in Calls : \E token \in HeldTokens : RefreshTokenIfNeeded(c, m, token)

SeqNext == SeqStart \/ Resume \/ Tick

SeqSpec == Init /\ [][SeqNext]_vars

\* ----------------------------------------------------- BaseHTTPClient steps

\* _make_request is called: the loop is entered and the first request issued
MakeRequest(max_retries) ==
    /\ http.pc # "request"
    /\ http' = HttpCall(max_retries)
    /\ UNCHANGED <<now, all_credentials, providers, tokens, calls, ev, client, validation, database, ingest, loop, storage>>

\* the request in flight gets its response or fails, and the iteration runs to
\* its continue (the next request is issued), return or raise
Attempt(r) ==
    /\ http.pc = "request"
    /\ http' = _make_request(http, r)
    /\ UNCHANGED <<now, all_credentials, providers, tokens, calls, ev, client, validation, database, ingest, loop, storage>>

\* a new BaseHTTPClient
HttpInit ==
    /\ AuthenticationManagerInit
    /\ http = IdleHttp
    /\ client = None
    /\ validation = None
    /\ database = None
    /\ ingest = None
    /\ loop = None
    /\ storage = None

HttpNext ==
    \/ \E max_retries \in 0..MaxRetries : MakeRequest(max_retries)
    \/ \E r \in Responses : Attempt(r)

\* one HTTP client making call after call
HttpSpec == HttpInit /\ [][HttpNext]_vars

\* ---------------------------------------------- BostonScientificClient steps

\* BostonScientificClient(auth_manager): registers its provider
NewClient ==
    /\ client.pc = "none"
    /\ providers' = providers \cup {ClientManufacturer}
    /\ client' = [NoClient EXCEPT !.pc = "idle"]
    /\ UNCHANGED <<now, all_credentials, tokens, calls, ev, http, validation, database, ingest, loop, storage>>

\* an operation of the client is called
Operation(op) ==
    /\ client.pc \in {"idle", "done"}
    /\ LET r == get_valid_token(tokens, all_credentials, providers, ClientManufacturer, now)
           cl == operation_called(op, CallAfter(r, ClientManufacturer))
       IN  /\ tokens' = r.tokens
           /\ client' = IF r.pc = "idle" THEN operation(cl, r.ret) ELSE cl
    /\ UNCHANGED <<now, all_credentials, providers, calls, ev, http, validation, database, ingest, loop, storage>>

\* provider.authenticate returns a token to the operation's get_valid_token
OperationAuthenticateReturns ==
    /\ client.pc = "authenticate"
    /\ \E token \in TokensIssuedAt(now) :
         LET r == get_valid_token_returned(tokens, ClientManufacturer, token, client.call)
         IN  /\ tokens' = r.tokens
             /\ client' = operation(client, r.ret)
    /\ UNCHANGED <<now, all_credentials, providers, calls, ev, http, validation, database, ingest, loop, storage>>

\* provider.authenticate raises in the operation's get_valid_token
OperationAuthenticateRaises ==
    /\ client.pc = "authenticate"
    /\ LET r == get_valid_token_raised(tokens, ClientManufacturer, client.call)
       IN  /\ tokens' = r.tokens
           /\ client' = operation(client, r.ret)
    /\ UNCHANGED <<now, all_credentials, providers, calls, ev, http, validation, database, ingest, loop, storage>>

\* an AuthenticationManager, and a client not yet constructed
ClientInit ==
    /\ AuthenticationManagerInit
    /\ http = None
    /\ client = NoClient
    /\ validation = None
    /\ database = None
    /\ ingest = None
    /\ loop = None
    /\ storage = None

ClientNext ==
    \/ NewClient
    \/ \E m \in Manufacturers : StoreCredentials(m)
    \/ \E m \in Manufacturers : DeleteCredentials(m)
    \/ \E op \in Operations : Operation(op)
    \/ OperationAuthenticateReturns
    \/ OperationAuthenticateRaises
    \/ Tick

\* one client whose operations are called one at a time
ClientSpec == ClientInit /\ [][ClientNext]_vars

\* ------------------------------------------------------ DataValidator steps

\* DataValidator(config).validate_reading(reading)
ValidateReading ==
    /\ validation.pc = "called"
    /\ validation.op = "validate_reading"
    /\ LET r == validate_reading(validation.validation_enabled, validation.readings[1])
       IN  validation' = [validation EXCEPT !.pc = "returned", !.exc = r.exc, !.ret = r.ret]
    /\ UNCHANGED <<now, all_credentials, providers, tokens, calls, ev, http, client, database, ingest, loop, storage>>

\* DataValidationRules.validate_reading(reading)
RulesValidateReading ==
    /\ validation.pc = "called"
    /\ validation.op = "DataValidationRules.validate_reading"
    /\ LET r == DataValidationRules_validate_reading(validation.readings[1])
       IN  validation' = [validation EXCEPT !.pc = "returned", !.exc = r.exc, !.ret = r.ret]
    /\ UNCHANGED <<now, all_credentials, providers, tokens, calls, ev, http, client, database, ingest, loop, storage>>

\* DataValidator(config).validate_readings_batch(readings)
ValidateReadingsBatch ==
    /\ validation.pc = "called"
    /\ validation.op = "validate_readings_batch"
    /\ LET r == validate_readings_batch(validation.validation_enabled, validation.readings)
       IN  validation' = [validation EXCEPT !.pc = "returned", !.exc = r.exc, !.ret = r.ret]
    /\ UNCHANGED <<now, all_credentials, providers, tokens, calls, ev, http, client, database, ingest, loop, storage>>

\* every call of the validator with the arguments tried
ValidatorInit ==
    /\ AuthenticationManagerInit
    /\ http = None
    /\ client = None
    /\ validation \in ValidatorCalls
    /\ database = None
    /\ ingest = None
    /\ loop = None
    /\ storage = None

ValidatorNext == ValidateReading \/ RulesValidateReading \/ ValidateReadingsBatch

ValidatorSpec == ValidatorInit /\ [][ValidatorNext]_vars


\* ------------------------------------------------------------- properties

\* the buffer rule as the specification words it: no expires_at, or
\* now + 5 minutes < expires_at
OutsideBuffer(token, t) ==
    token.expires_at = NoExpiry \/ t + 5 < token.expires_at

\* the cache holds a token for m that is outside its expiry buffer at time t
HasLive(toks, m, t) == m \in DOMAIN toks /\ OutsideBuffer(toks[m], t)

\* the number of coroutines suspended in the provider's operation pc
InFlight(pc) == Cardinality({c \in Calls : calls[c].pc = pc})

\* C1: get_token returns the stored token exactly when it has no expires_at or
\* now + 5 min < expires_at, and then leaves the cache alone; when
\* now + 5 min >= expires_at it returns absent and removes the entry; an absent
\* entry gives absent, and an entry appears only when authenticate or
\* refresh_token returned a token that is stored for that manufacturer.
C1_GetTokenExpiry ==
    [][ /\ ev'.op = "get_token" =>
             /\ HasLive(tokens, ev'.m, now) =>
                    ev'.ret = Some(tokens[ev'.m]) /\ tokens' = tokens
             /\ ~ HasLive(tokens, ev'.m, now) =>
                    ev'.ret = None /\ tokens' = remove_token(tokens, ev'.m)
             /\ ev'.ret # None => HasLive(tokens, ev'.m, now)
        /\ \A m \in Manufacturers :
             (m \notin DOMAIN tokens /\ m \in DOMAIN tokens') =>
                 /\ ev'.op \in {"authenticate_returns", "refresh_returns"}
                 /\ ev'.m = m
      ]_vars

\* C1 witness: get_token met a token exactly on the buffer edge, returned absent
\* and removed it.
C1_Witness ==
    /\ ev.op = "get_token"
    /\ ev.token # None
    /\ ev.token[1].expires_at = now + 5
    /\ ev.ret = None
    /\ ev.m \notin DOMAIN tokens

\* C2: with a live token cached for the manufacturer, get_valid_token returns
\* exactly that token in the same step, reads no credentials, calls no
\* authenticate, and changes neither the cache nor any coroutine.
C2_CachedTokenReturned ==
    [][ (ev'.op = "get_valid_token" /\ HasLive(tokens, ev'.m, now)) =>
            /\ ev'.done
            /\ ev'.ret = Some(tokens[ev'.m])
            /\ ev'.loads = 0
            /\ ev'.auths = 0
            /\ tokens' = tokens
            /\ calls' = calls
      ]_vars

\* C2 witness: get_valid_token returned the cached token of a manufacturer whose
\* credentials are no longer in the store.
C2_Witness ==
    /\ ev.op = "get_valid_token"
    /\ ev.ret # None
    /\ ev.m \in DOMAIN tokens
    /\ ev.ret = Some(tokens[ev.m])
    /\ ev.loads = 0
    /\ ev.m \notin all_credentials

\* C3: get_valid_token without a live token, with credential and provider,
\* suspends in one authenticate call; when authenticate returns, the token is
\* stored under that manufacturer (other entries untouched) and returned, with one
\* authenticate call in all; a get_valid_token that follows while the token is
\* outside its buffer returns the same token without authenticate.
C3_AuthenticateOnceAndCache ==
    [][ /\ ( /\ ev'.op = "get_valid_token"
             /\ ~ HasLive(tokens, ev'.m, now)
             /\ ev'.m \in all_credentials
             /\ ev'.m \in providers ) =>
                 /\ ~ ev'.done
                 /\ ev'.auths = 1
                 /\ \E c \in Calls :
                      /\ calls[c].pc = "idle"
                      /\ calls'[c].pc = "authenticate"
                      /\ calls'[c].m = ev'.m
                      /\ calls'[c].auths = 1
                      /\ \A d \in Calls \ {c} : calls'[d] = calls[d]
        /\ ev'.op = "authenticate_returns" =>
                 /\ ev'.done
                 /\ ev'.auths = 1
                 /\ ev'.ret # None
                 /\ ev'.m \in DOMAIN tokens'
                 /\ ev'.ret = Some(tokens'[ev'.m])
                 /\ \A o \in Manufacturers \ {ev'.m} : Lookup(tokens', o) = Lookup(tokens, o)
        /\ ( /\ ev.op = "authenticate_returns"
             /\ ev'.op = "get_valid_token"
             /\ ev'.m = ev.m
             /\ OutsideBuffer(ev.ret[1], now) ) =>
                 /\ ev'.done
                 /\ ev'.ret = ev.ret
                 /\ ev'.auths = 0
      ]_vars

\* C3 witness: authenticate returned a live token to a get_valid_token that had
\* found an expired token in the cache; the token is stored and returned.
C3_Witness ==
    /\ ev.op = "authenticate_returns"
    /\ ev.auths = 1
    /\ ev.ret # None
    /\ ev.ret = Lookup(tokens, ev.m)
    /\ OutsideBuffer(ev.ret[1], now)
    /\ now > 0

\* C4: overlapping get_valid_token calls for one manufacturer never have two
\* authenticate calls in flight (authenticate is invoked once for both).
C4_SingleAuthenticateInFlight ==
    \A m \in Manufacturers :
        Cardinality({c \in Calls : calls[c].pc = "authenticate" /\ calls[c].m = m}) <= 1

C6_AuthenticateRaises ==
    [][ ev'.op = "authenticate_raises" =>
            /\ ev'.done
            /\ ev'.ret = None
            /\ ev'.log = "Authentication failed"
            /\ ev'.auths = 1
            /\ tokens' = tokens
            /\ ev'.m \notin DOMAIN tokens'
            /\ InFlight("authenticate")' = InFlight("authenticate") - 1
      ]_vars

\* C6 witness: authenticate raised for a get_valid_token that had evicted an
\* expired token; the cache has no entry for the manufacturer.
C6_Witness ==
    /\ ev.op = "authenticate_raises"
    /\ ev.ret = None
    /\ ev.auths = 1
    /\ ev.m \notin DOMAIN tokens
    /\ now > 0

\* C7: when the provider is registered and is_token_valid(token) holds,
\* refresh_token_if_needed returns the same token in the same step, calls no
\* refresh_token, reads no credentials and changes neither the cache nor any
\* coroutine.
C7_ValidTokenUnchanged ==
    [][ ( /\ ev'.op = "refresh_token_if_needed"
          /\ ev'.m \in providers
          /\ is_token_valid(ev'.token[1], now) ) =>
            /\ ev'.done
            /\ ev'.ret = ev'.token
            /\ ev'.refreshes = 0
            /\ ev'.loads = 0
            /\ tokens' = tokens
            /\ calls' = calls
      ]_vars

\* C7 witness: refresh_token_if_needed returned its valid token for a
\* manufacturer that has no credentials, while the cache holds another token.
C7_Witness ==
    /\ ev.op = "refresh_token_if_needed"
    /\ ev.ret # None
    /\ ev.ret = ev.token
    /\ ev.m \notin all_credentials
    /\ ev.m \in DOMAIN tokens
    /\ ev.ret # Some(tokens[ev.m])

\* C8: refresh_token_if_needed with a token that is no longer valid: when
\* refresh_token returns, the new token is the cached one and is returned; when
\* refresh_token raises, or the credential cannot be loaded, the call returns
\* absent and the cache holds no token for the manufacturer.
C8_RefreshOrEvict ==
    [][ /\ ev'.op = "refresh_returns" =>
            /\ ev'.ret # None
            /\ Lookup(tokens', ev'.m) = ev'.ret
        /\ ev'.op = "refresh_raises" =>
            /\ ev'.ret = None
            /\ ev'.m \notin DOMAIN tokens'
        /\ ( /\ ev'.op = "refresh_token_if_needed"
             /\ ev'.m \in providers
             /\ ~ is_token_valid(ev'.token[1], now)
             /\ ev'.m \notin all_credentials ) =>
            /\ ev'.ret = None
            /\ ev'.m \notin DOMAIN tokens'
      ]_vars

\* a revoked manufacturer: no credential in the store, no token in the cache
Revoked(creds, toks, m) == m \notin creds /\ m \notin DOMAIN toks

\* C9: revoke_credentials leaves the manufacturer without credential and without
\* cached token and changes no other manufacturer's credential or token, nor the
\* providers; the manufacturer stays without token until a credential is stored
\* again, and until then get_valid_token returns absent at once.
C9_RevokeRemovesBoth ==
    [][ /\ ev'.op = "revoke_credentials" =>
            /\ Revoked(all_credentials', tokens', ev'.m)
            /\ all_credentials' = all_credentials \ {ev'.m}
            /\ \A o \in Manufacturers \ {ev'.m} : Lookup(tokens', o) = Lookup(tokens, o)
            /\ providers' = providers
        /\ \A m \in Manufacturers :
             Revoked(all_credentials, tokens, m) =>
                 \/ Revoked(all_credentials', tokens', m)
                 \/ m \in all_credentials'
        /\ (ev'.op = "get_valid_token" /\ Revoked(all_credentials, tokens, ev'.m)) =>
            /\ ev'.done
            /\ ev'.ret = None
            /\ ev'.auths = 0
      ]_vars

\* C9 witness: revoke_credentials removed a cached token while another
\* manufacturer keeps its credential and its cached token.
C9_Witness ==
    /\ ev.op = "revoke_credentials"
    /\ ev.token # None
    /\ Revoked(all_credentials, tokens, ev.m)
    /\ \E o \in Manufacturers \ {ev.m} : o \in all_credentials /\ o \in DOMAIN tokens

\* every token a provider can issue within the model's time
AllTokens == UNION {TokensIssuedAt(i) : i \in 0..MaxTime}

\* C10: at every time, for every token, the provider's is_token_valid holds
\* exactly when the cache's _is_token_expired does not, the buffer edge
\* now + 5 min = expires_at and tokens without expires_at included.
C10_ValidIffNotExpired ==
    \A token \in AllTokens :
        is_token_valid(token, now) <=> ~ _is_token_expired(token, now)

\* C10 witness: refresh_token_if_needed found a token exactly on the buffer edge
\* not valid (it did not return it), and the cache treats it as expired too.
C10_Witness ==
    /\ ev.op = "refresh_token_if_needed"
    /\ ev.token # None
    /\ ev.token[1].expires_at = now + 5
    /\ ev.ret # ev.token
    /\ get_token([m \in {ev.m} |-> ev.token[1]], ev.m, now).ret = None

\* ------------------------------------------------- BaseHTTPClient properties

\* requests issued by the call so far: one per outcome seen, and the one in flight
Requests == Len(http.seen) + (IF http.pc = "request" THEN 1 ELSE 0)

\* attempts are counted from 0: the i-th outcome seen belongs to attempt i - 1
AttemptsRemain(i) == i - 1 < http.max_retries

IsResponse(i, status) == http.seen[i].kind = "response" /\ http.seen[i].status = status

IsFailure(i) == http.seen[i].kind = "raise"

\* the call ended at its i-th outcome, with no sleep and no request after it
EndedAt(i) ==
    /\ http.pc = "done"
    /\ Len(http.seen) = i
    /\ Len(http.sleeps) = i - 1
    /\ Requests = i

\* the call went on after its i-th outcome: it slept, then issued another request
ReissuedAfter(i) == Len(http.sleeps) >= i /\ Requests > i

C15_BoundedBackoff ==
    /\ Requests <= http.max_retries + 1
    /\ \A i \in 1..Len(http.seen) :
          IsFailure(i) =>
              IF AttemptsRemain(i)
              THEN ReissuedAfter(i) /\ http.sleeps[i] = 2 ^ (i - 1)
              ELSE /\ EndedAt(i)
                   /\ http.exc = "APIError"
                   /\ http.exc_cause = http.seen[i].exc
    /\ http.pc = "done" =>
          \/ /\ http.exc = ""
             /\ http.seen[Len(http.seen)].kind = "response"
             /\ http.ret = Some(http.seen[Len(http.seen)].body)
          \/ /\ http.exc \in {"APIError", "AuthenticationError", "RateLimitError"}
             /\ http.ret = None

\* a budget of two retries used up by a failure, a 429 and a last failure
C15_Witness ==
    /\ http.max_retries = 2
    /\ Len(http.seen) = 3
    /\ IsFailure(1) /\ IsResponse(2, 429) /\ IsFailure(3)
    /\ http.sleeps[1] = 1
    /\ http.pc = "done"
    /\ http.exc = "APIError"
    /\ http.exc_cause = http.seen[3].exc

\* ----------------------------------------- BostonScientificClient properties

\* C16 as stated: an operation that has ended asked get_valid_token first, and
\* when it got no token it failed with AuthenticationError and made no vendor call.
C16_NoTokenAuthenticationError ==
    client.pc = "done" =>
        /\ client.asked >= 1
        /\ client.no_token => client.exc = "AuthenticationError" /\ client.vendor_calls = 0

\* C17 as stated: an operation that raised AuthenticationError has been followed
\* by one token refresh and has run exactly once more.
C17_RetriedOnceViaRefresh ==
    (client.pc = "done" /\ client.no_token) =>
        client.refreshes = 1 /\ client.issued = 2

\* -------------------------------------------------- DataValidator properties

\* the reading a call of validate_reading is about
TheReading == validation.readings[1]

\* a call of DataValidator.validate_reading with validation enabled has ended
ValidatedReading ==
    /\ validation.pc = "returned"
    /\ validation.op = "validate_reading"
    /\ validation.validation_enabled

\* the reading's type is in the range table and its value is there
Ranged(r) == r.reading_type \in DOMAIN NORMAL_RANGES /\ r.value # None

\* C18 as stated: validate_reading and validate_readings_batch raise nothing,
\* and validate_reading of a reading without value reports the missing value.
C18_ViolationsNotRaised ==
    ( /\ validation.pc = "returned"
      /\ validation.op \in {"validate_reading", "validate_readings_batch"} )
    => /\ validation.exc = ""
       /\ (ValidatedReading /\ TheReading.value = None)
          => \E i \in 1..Len(validation.ret) :
                 validation.ret[i].kind = "Missing reading value"

\* C19: a reading of a type in the range table, with every field present and
\* the table's unit, has no violation iff min <= value <= max, exactly one
\* "above normal range" when value > max and exactly one "below normal range"
\* when value < min; heart_rate 72 bpm has none and 250 bpm one above.
C19_RangeViolations ==
    ( /\ validation.pc = "returned"
      /\ validation.op \in {"validate_reading", "DataValidationRules.validate_reading"}
      /\ validation.validation_enabled
      /\ Ranged(TheReading)
      /\ TheReading.device_id # ""
      /\ TheReading.patient_id # ""
      /\ TheReading.timestamp # None
      /\ TheReading.unit = NORMAL_RANGES[TheReading.reading_type].unit )
    => LET range_info == NORMAL_RANGES[TheReading.reading_type]
           value == TheReading.value[1]
       IN  /\ validation.exc = ""
           /\ validation.ret = <<>> <=> (range_info.min <= value /\ value <= range_info.max)
           /\ value > range_info.max =>
                 /\ Len(validation.ret) = 1
                 /\ validation.ret[1].kind = "above normal range"
           /\ value < range_info.min =>
                 /\ Len(validation.ret) = 1
                 /\ validation.ret[1].kind = "below normal range"
           /\ (TheReading.reading_type = "heart_rate" /\ value = 7200)
                 => validation.ret = <<>>
           /\ (TheReading.reading_type = "heart_rate" /\ value = 25000)
                 => Len(validation.ret) = 1 /\ validation.ret[1].kind = "above normal range"

\* a complete heart_rate reading of 250 bpm was validated and got its one violation
C19_Witness ==
    /\ ValidatedReading
    /\ TheReading.reading_type = "heart_rate"
    /\ TheReading.value = Some(25000)
    /\ TheReading.unit = "bpm"
    /\ TheReading.device_id # "" /\ TheReading.patient_id # ""
    /\ TheReading.timestamp # None
    /\ Len(validation.ret) = 1

\* the required fields of a reading that are missing, value aside
MissingFields(r) ==
    (IF r.device_id = "" THEN 1 ELSE 0) + (IF r.patient_id = "" THEN 1 ELSE 0)
    + (IF r.unit = "" THEN 1 ELSE 0) + (IF r.timestamp = None THEN 1 ELSE 0)

OutOfRange(r) ==
    \/ r.value[1] < NORMAL_RANGES[r.reading_type].min
    \/ r.value[1] > NORMAL_RANGES[r.reading_type].max

\* C20: validate_reading runs every check: a reading with k required fields
\* missing, an out-of-range value and a unit other than the table's yields
\* exactly k + 2 violations, the k presence violations first; with validation
\* disabled it yields none.
C20_NoShortCircuit ==
    /\ ( /\ ValidatedReading
         /\ Ranged(TheReading)
         /\ OutOfRange(TheReading)
         /\ TheReading.unit # NORMAL_RANGES[TheReading.reading_type].unit )
       => LET k == MissingFields(TheReading)
          IN  /\ validation.exc = ""
              /\ Len(validation.ret) = k + 2
              /\ \A i \in 1..k :
                    validation.ret[i].kind \in
                        {"Missing device_id", "Missing patient_id",
                         "Missing unit", "Missing timestamp"}
              /\ validation.ret[k + 1].kind \in {"below normal range", "above normal range"}
              /\ validation.ret[k + 2].kind = "Unit mismatch"
    /\ ( /\ validation.pc = "returned"
         /\ validation.op \in {"validate_reading", "validate_readings_batch"}
         /\ ~validation.validation_enabled )
       => validation.exc = "" /\ validation.ret = <<>>

\* a reading without device_id and timestamp, too high and in the wrong unit,
\* was validated and got four violations
C20_Witness ==
    /\ ValidatedReading
    /\ TheReading.reading_type = "battery_voltage"
    /\ TheReading.value = Some(351)
    /\ TheReading.unit = "mmHg"
    /\ TheReading.device_id = "" /\ TheReading.timestamp = None
    /\ TheReading.patient_id # ""
    /\ Len(validation.ret) = 4

\* -------------------------------------------------------- DatabaseConnection
\* The table device_readings is a bag of rows, kept as the number of rows per
\* (device_id, reading_type, timestamp), the columns the duplicate query
\* selects on; device_alerts is the set of the alert_id of its rows.

\* the readings of one vendor response
MaxReadings == 2

\* the rows device_readings may hold for one key
MaxRows == 2

\* a heart_rate reading of a device, at the minute timestamp
Reading(device_id, patient_id, value, unit, timestamp) ==
    [device_id |-> device_id, patient_id |-> patient_id, reading_type |-> "heart_rate",
     value |-> value, unit |-> unit, timestamp |-> Some(timestamp)]

\* WHERE device_id = ? AND reading_type = ? AND timestamp = ?
ReadingKey(reading) == <<reading.device_id, reading.reading_type, reading.timestamp>>

\* SELECT COUNT(*) over the rows of a key
RowCount(rows, key) == IF key \in DOMAIN rows THEN rows[key] ELSE 0

\* INSERT INTO device_readings
InsertRow(rows, key) ==
    [k \in DOMAIN rows \cup {key} |-> IF k = key THEN RowCount(rows, k) + 1 ELSE rows[k]]

\* a connected database with empty tables
EmptyDatabase == [device_readings |-> <<>>, device_alerts |-> {}]

\* DatabaseConnection._is_duplicate_reading: count > 0, and False when the
\* query raises
_is_duplicate_reading(rows, reading, query_raises) ==
    IF query_raises THEN FALSE ELSE RowCount(rows, ReadingKey(reading)) > 0

\* the loop of store_device_readings over the readings: the rows afterwards and
\* stored_count; a row inserted for an earlier reading of the batch is seen by
\* the duplicate query of a later one
RECURSIVE insert_readings(_, _, _)
insert_readings(rows, readings, query_raises) ==
    IF readings = <<>> THEN [rows |-> rows, stored_count |-> 0]
    ELSE
        LET reading == Head(readings)
            duplicate == _is_duplicate_reading(rows, reading, query_raises)
            inserted == IF duplicate THEN rows ELSE InsertRow(rows, ReadingKey(reading))
            rest == insert_readings(inserted, Tail(readings), query_raises)
        IN  [rows |-> rest.rows,
             stored_count |-> rest.stored_count + (IF duplicate THEN 0 ELSE 1)]

\* DatabaseConnection.store_device_readings under a fault of the database:
\* "query" makes the duplicate queries of the call raise, "write" makes an
\* INSERT or the commit raise, which leaves the table as it was and re-raises
store_device_readings(db, readings, fault) ==
    IF readings = <<>> THEN [db |-> db, ret |-> 0, exc |-> ""]
    ELSE IF fault = "write" THEN [db |-> db, ret |-> 0, exc |-> "DatabaseError"]
    ELSE
        LET r == insert_readings(db.device_readings, readings, fault = "query")
        IN  [db |-> [db EXCEPT !.device_readings = r.rows],
             ret |-> r.stored_count, exc |-> ""]

\* DatabaseConnection.store_device_alerts: an alert is inserted when no row has
\* its alert_id; the ids of a batch are distinct
store_device_alerts(db, alert_ids, fault) ==
    IF alert_ids = {} THEN [db |-> db, ret |-> 0, exc |-> ""]
    ELSE IF fault = "write" THEN [db |-> db, ret |-> 0, exc |-> "DatabaseError"]
    ELSE [db |-> [db EXCEPT !.device_alerts = @ \cup alert_ids],
          ret |-> Cardinality(alert_ids \ db.device_alerts), exc |-> ""]

\* the readings stored in the runs of the database alone: two values and two
\* timestamps of one device
StoreReadings ==
    {Reading("BSC-001", "PAT001", Some(v), "bpm", t) : v \in {7200, 25000}, t \in {0, 1}}

\* the faults of the database
DatabaseFaults == {"none", "query", "write"}

\* the batches of at most n readings out of a set
BatchesOf(readings, n) == UNION {[1..k -> readings] : k \in 0..n}

\* the call of store_device_readings just made: its arguments, the table
\* before it, what it returned or raised
StoreCall(readings, fault, before, r) ==
    [op |-> "store_device_readings", readings |-> readings, fault |-> fault,
     before |-> before, ret |-> r.ret, exc |-> r.exc]

\* a connected database, nothing stored, no call made
StoreInit ==
    /\ AuthenticationManagerInit
    /\ http = None
    /\ client = None
    /\ validation = None
    /\ database = EmptyDatabase
    /\ ingest = None
    /\ loop = None
    /\ storage = None

\* a call of store_device_readings
StoreDeviceReadings(readings, fault) ==
    LET r == store_device_readings(database, readings, fault)
    IN  /\ \A key \in DOMAIN r.db.device_readings : r.db.device_readings[key] <= MaxRows
        /\ database' = r.db
        /\ ingest' = StoreCall(readings, fault, database.device_readings, r)
        /\ UNCHANGED <<now, all_credentials, providers, tokens, calls, ev, http, client,
                       validation, loop, storage>>

StoreNext ==
    \E readings \in BatchesOf(StoreReadings, MaxReadings) :
        \E fault \in DatabaseFaults : StoreDeviceReadings(readings, fault)

\* a database on which store_device_readings is called again and again
StoreSpec == StoreInit /\ [][StoreNext]_vars

\* ------------------------------------- DataIngestionPipeline._ingest_device_data
\* One device is ingested against a vendor that returns a list of readings and
\* a set of alerts of its own, or fails at one point, and against a database
\* that may fail at one point.

\* IngestionConfig, as far as the pipeline reads it
IngestionConfig ==
    [validation_enabled : BOOLEAN, alert_threshold_violations : BOOLEAN]

\* the manufacturers with a client registered by register_api_client
RegisteredManufacturers == {"boston_scientific", "medtronic"}

\* PatientDevice, as far as the pipeline reads it
PatientDevice(device_id, manufacturer) ==
    [device_id |-> device_id, patient_id |-> "PAT001", manufacturer |-> manufacturer]

\* IngestionStats as constructed: every counter 0, no error, not ended
NewStats ==
    [total_readings |-> 0, successful_readings |-> 0, failed_readings |-> 0,
     duplicate_readings |-> 0, validation_failures |-> 0, alerts_generated |-> 0,
     errors |-> <<>>, end_time |-> None]

\* the points where an ingestion can fail: the two fetches of the client, the
\* duplicate query, the write of readings, the write of alerts
IngestionFaults ==
    {"none", "get_recent_readings", "query", "write", "alert_write", "get_device_alerts"}

\* the fault as store_device_readings and store_device_alerts see it
ReadingsFault(fault) == IF fault \in {"query", "write"} THEN fault ELSE "none"
AlertsFault(fault) == IF fault = "alert_write" THEN "write" ELSE "none"

\* "Critical" in violation: the text of a violation is made of its kind, the
\* reading_type and the unit of the range, and numbers
MentionsCritical(violation) ==
    "Critical" \in {violation.kind, violation.reading_type, violation.unit}

\* mutant: every violation of the range table makes an alert
threshold_violations_any(violations) == violations

\* the violations _generate_threshold_alerts makes an alert of
threshold_violations(violations) ==
    SelectSeq(violations,
              LAMBDA v : v.kind \in {"above normal range", "below normal range"})

\* the alerts of _generate_threshold_alerts before their alert_id is drawn, in
\* the order of the readings; TypeError when validate_reading raises it
RECURSIVE reading_alerts(_, _)
reading_alerts(readings, device) ==
    IF readings = <<>> THEN Returned(<<>>)
    ELSE
        LET reading == Head(readings)
            violations == DataValidationRules_validate_reading(reading)
            rest == reading_alerts(Tail(readings), device)
            alert(v) ==
                [device_id |-> device.device_id, alert_type |-> "threshold_violation",
                 severity |-> IF MentionsCritical(v) THEN "high" ELSE "medium",
                 violation |-> v, reading |-> reading]
            kept == threshold_violations(violations.ret)
        IN  IF violations.exc # "" THEN Raised(violations.exc)
            ELSE IF rest.exc # "" THEN Raised(rest.exc)
            ELSE Returned([i \in 1..Len(kept) |-> alert(kept[i])] \o rest.ret)

\* alert_id = str(uuid.uuid4()): an id no alert has had; drawn is the number of
\* ids drawn before
Uuid4(drawn, i) == <<"uuid4", drawn + i>>

\* the alert_id of an alert of the vendor
VendorAlertId(n) == <<"vendor", n>>

\* DataIngestionPipeline._generate_threshold_alerts
_generate_threshold_alerts(readings, device, drawn) ==
    LET alerts == reading_alerts(readings, device)
    IN  IF alerts.exc # "" THEN alerts
        ELSE Returned([i \in 1..Len(alerts.ret) |->
                          [alert_id |-> Uuid4(drawn, i)] @@ alerts.ret[i]])

\* mutant: the readings kept come out in reverse
RECURSIVE valid_readings_reversed(_, _, _)
valid_readings_reversed(readings, validation_results, i) ==
    IF readings = <<>> THEN <<>>
    ELSE valid_readings_reversed(Tail(readings), validation_results, i + 1)
         \o (IF i \in DOMAIN validation_results THEN <<>> ELSE <<Head(readings)>>)

\* the readings whose key "reading_{i}" is not in validation_results
RECURSIVE valid_readings(_, _, _)
valid_readings(readings, validation_results, i) ==
    IF readings = <<>> THEN <<>>
    ELSE (IF i \in DOMAIN validation_results THEN <<>> ELSE <<Head(readings)>>)
         \o valid_readings(Tail(readings), validation_results, i + 1)

\* the ids uuid4 has given to alerts of the table
DrawnUuids(db) == Cardinality({id \in db.device_alerts : id[1] = "uuid4"})

\* what a part of _ingest_device_data leaves: whether it raised, the database,
\* the stats, the list handed to store_device_readings (None when it was not
\* called) and the alerts synthesized
Ingested(raised, db, stats, sink, alerts, stages) ==
    [raised |-> raised, db |-> db, stats |-> stats, sink |-> sink, alerts |-> alerts,
     stages |-> stages]

\* the calls made, in order, when _ingest_device_data is at line 364, at 369,
\* at 384, at 389 and at 392
Fetched == <<"get_recent_readings">>
Validated == Append(Fetched, "validate_readings_batch")
Stored == Append(Validated, "store_device_readings")
Synthesized == Append(Stored, "_generate_threshold_alerts")
ThresholdStored == Append(Synthesized, "store_threshold_alerts")

\* _ingest_device_data once the threshold alerts are generated: they are stored
\* and counted
threshold_alerts_generated(db, fault, stats, readings, alerts) ==
    LET ids == {alerts.ret[i].alert_id : i \in 1..Len(alerts.ret)}
        stored == store_device_alerts(db, ids, AlertsFault(fault))
    IN  IF alerts.exc # ""
        THEN Ingested(TRUE, db, stats, Some(readings), <<>>, Synthesized)
        ELSE IF alerts.ret = <<>>
        THEN Ingested(FALSE, db, stats, Some(readings), <<>>, Synthesized)
        ELSE IF stored.exc # ""
        THEN Ingested(TRUE, db, stats, Some(readings), alerts.ret, ThresholdStored)
        ELSE Ingested(FALSE, stored.db, [stats EXCEPT !.alerts_generated = Len(alerts.ret)],
                      Some(readings), alerts.ret, ThresholdStored)

\* the variant that counts every reading handed to the database as stored
readings_counted_as_stored(stats, readings, stored_count) ==
    [stats EXCEPT !.successful_readings = Len(readings), !.duplicate_readings = 0]

\* stats.successful_readings = stored_count, and the rest of the readings
\* handed to the database are the duplicates
readings_counted(stats, readings, stored_count) ==
    [stats EXCEPT !.successful_readings = stored_count,
                  !.duplicate_readings = Len(readings) - stored_count]

\* _ingest_device_data once store_device_readings has ended: its count goes to
\* the stats, and the readings handed to it go to _generate_threshold_alerts
readings_stored(config, device, fault, stats, readings, stored) ==
    IF stored.exc # "" THEN Ingested(TRUE, stored.db, stats, Some(readings), <<>>, Stored)
    ELSE IF ~config.alert_threshold_violations
    THEN Ingested(FALSE, stored.db, readings_counted(stats, readings, stored.ret),
                  Some(readings), <<>>, Stored)
    ELSE threshold_alerts_generated(
             stored.db, fault, readings_counted(stats, readings, stored.ret), readings,
             _generate_threshold_alerts(readings, device, DrawnUuids(stored.db)))

\* _ingest_device_data once the batch is validated: the failures are counted,
\* with validation_enabled the readings with a result are dropped, and the rest
\* is handed to store_device_readings
readings_validated(db, config, device, fetched, fault, stats, validation_results) ==
    IF validation_results.exc # "" THEN Ingested(TRUE, db, stats, None, <<>>, Validated)
    ELSE IF config.validation_enabled /\ DOMAIN validation_results.ret # {}
    THEN readings_stored(
             config, device, fault,
             [stats EXCEPT !.validation_failures = Cardinality(DOMAIN validation_results.ret)],
             valid_readings(fetched, validation_results.ret, 0),
             store_device_readings(db, valid_readings(fetched, validation_results.ret, 0),
                                   ReadingsFault(fault)))
    ELSE readings_stored(
             config, device, fault,
             [stats EXCEPT !.validation_failures = Cardinality(DOMAIN validation_results.ret)],
             fetched,
             store_device_readings(db, fetched, ReadingsFault(fault)))

\* _ingest_device_data, the block under "if readings"
ingest_readings(db, config, device, fetched, fault, stats) ==
    readings_validated(db, config, device, fetched, fault, stats,
                       validate_readings_batch(config.validation_enabled, fetched))

\* mutant: the except clause leaves failed_readings as it is
device_failed_counts_kept(stats, device) ==
    [stats EXCEPT
       !.errors = Append(@, <<"Error ingesting data for device", device.device_id>>)]

\* the except clause of _ingest_device_data
device_failed(stats, device) ==
    [stats EXCEPT
       !.errors = Append(@, <<"Error ingesting data for device", device.device_id>>),
       !.failed_readings = stats.total_readings]

\* the variant that counts every alert of the vendor handed to the database
alerts_counted_as_stored(stats, device_alerts, stored_alerts) ==
    [stats EXCEPT !.alerts_generated = @ + Cardinality(device_alerts)]

\* stats.alerts_generated += stored_alerts
alerts_counted(stats, device_alerts, stored_alerts) ==
    [stats EXCEPT !.alerts_generated = @ + stored_alerts]

\* the variant whose except clause takes the rows of the ingestion back
left_failed_unwound(first, device) ==
    [db |-> [first.db EXCEPT !.device_readings = <<>>],
     stats |-> device_failed(first.stats, device),
     sink |-> first.sink, alerts |-> first.alerts, stages |-> first.stages]

\* the except clause reached after a part of the ingestion: the database stays
\* as that part left it
left_failed(first, device) ==
    [db |-> first.db, stats |-> device_failed(first.stats, device),
     sink |-> first.sink, alerts |-> first.alerts, stages |-> first.stages]

\* the variant that fetches the alerts of the vendor after a failure too
ingest_device_alerts_after_failure(device, device_alerts, fault, first) ==
    LET stored == store_device_alerts(first.db, device_alerts, AlertsFault(fault))
        fetched == [first EXCEPT !.stages = Append(@, "get_device_alerts")]
        sent == [first EXCEPT !.stages = @ \o <<"get_device_alerts", "store_device_alerts">>]
    IN  IF first.raised \/ fault = "get_device_alerts" THEN left_failed(fetched, device)
        ELSE IF device_alerts = {}
        THEN [db |-> first.db, stats |-> first.stats, sink |-> first.sink,
              alerts |-> first.alerts, stages |-> fetched.stages]
        ELSE IF stored.exc # "" THEN left_failed(sent, device)
        ELSE [db |-> stored.db,
              stats |-> alerts_counted(first.stats, device_alerts, stored.ret),
              sink |-> first.sink, alerts |-> first.alerts, stages |-> sent.stages]

\* _ingest_device_data, the alerts of the vendor, after the block of the
\* readings left first; what the ingestion leaves
ingest_device_alerts(device, device_alerts, fault, first) ==
    LET stored == store_device_alerts(first.db, device_alerts, AlertsFault(fault))
        fetched == [first EXCEPT !.stages = Append(@, "get_device_alerts")]
        sent == [first EXCEPT !.stages = @ \o <<"get_device_alerts", "store_device_alerts">>]
    IN  IF first.raised THEN left_failed(first, device)
        ELSE IF fault = "get_device_alerts" THEN left_failed(fetched, device)
        ELSE IF device_alerts = {}
        THEN [db |-> first.db, stats |-> first.stats, sink |-> first.sink,
              alerts |-> first.alerts, stages |-> fetched.stages]
        ELSE IF stored.exc # "" THEN left_failed(sent, device)
        ELSE [db |-> stored.db,
              stats |-> alerts_counted(first.stats, device_alerts, stored.ret),
              sink |-> first.sink, alerts |-> first.alerts, stages |-> sent.stages]

\* stats.end_time = datetime.utcnow()
ended(r, t) == [r EXCEPT !.stats.end_time = Some(t)]

\* DataIngestionPipeline._ingest_device_data at time t; vendor holds the
\* readings and alerts the client returns and the fault of this ingestion
_ingest_device_data(db, config, device, vendor, t) ==
    IF device.manufacturer \notin RegisteredManufacturers
    THEN [db |-> db, sink |-> None, alerts |-> <<>>, stages |-> <<>>,
          stats |-> [NewStats EXCEPT
                       !.errors = <<<<"No API client for manufacturer",
                                      device.manufacturer>>>>]]
    ELSE IF vendor.fault = "get_recent_readings"
    THEN ended([db |-> db, sink |-> None, alerts |-> <<>>, stages |-> Fetched,
                stats |-> device_failed(NewStats, device)], t)
    ELSE IF vendor.readings = <<>>
    THEN ended(ingest_device_alerts(device, vendor.device_alerts, vendor.fault,
                                    Ingested(FALSE, db, NewStats, None, <<>>, Fetched)), t)
    ELSE ended(ingest_device_alerts(
                   device, vendor.device_alerts, vendor.fault,
                   ingest_readings(db, config, device, vendor.readings, vendor.fault,
                                   [NewStats EXCEPT !.total_readings = Len(vendor.readings)])),
               t)

\* the readings a vendor returns in the runs of one device: in range at two
\* timestamps, above the maximum, at the maximum, below the minimum, in another
\* unit, without a value, without a patient
DeviceReadings ==
    {Reading("BSC-001", "PAT001", Some(7200), "bpm", 0),
     Reading("BSC-001", "PAT001", Some(7200), "bpm", 1),
     Reading("BSC-001", "PAT001", Some(25000), "bpm", 1),
     Reading("BSC-001", "PAT001", Some(20000), "bpm", 0),
     Reading("BSC-001", "PAT001", Some(2900), "bpm", 1),
     Reading("BSC-001", "PAT001", Some(7200), "mmHg", 0),
     Reading("BSC-001", "PAT001", None, "bpm", 0),
     Reading("BSC-001", "", Some(7200), "bpm", 1)}

\* what the vendor does during one ingestion
Vendor(readings, device_alerts, fault) ==
    [readings |-> readings, device_alerts |-> device_alerts, fault |-> fault]

\* a response with a reading above the maximum between two in range
MixedBatch ==
    <<Reading("BSC-001", "PAT001", Some(7200), "bpm", 0),
      Reading("BSC-001", "PAT001", Some(25000), "bpm", 1),
      Reading("BSC-001", "PAT001", Some(7200), "bpm", 1)>>

\* the vendors of the runs of one device
DeviceVendors ==
    {Vendor(readings, device_alerts, fault) :
        readings \in BatchesOf(DeviceReadings, MaxReadings) \cup {MixedBatch},
        device_alerts \in {{}, {VendorAlertId(1)}},
        fault \in IngestionFaults}

\* the devices of the runs of one device: one of a manufacturer with a client,
\* one of a manufacturer without
Devices ==
    {PatientDevice("BSC-001", "boston_scientific"), PatientDevice("ABT-001", "abbott")}

\* a database that holds the reading of BSC-001 at timestamp 0
StoredBefore ==
    [EmptyDatabase EXCEPT
       !.device_readings = InsertRow(<<>>, <<"BSC-001", "heart_rate", Some(0)>>)]

\* a database that holds that reading and the first alert of the vendor
AlertedBefore == [StoredBefore EXCEPT !.device_alerts = {VendorAlertId(1)}]

\* a pipeline about to ingest a device: its config, the device, the vendor
DeviceInit ==
    /\ AuthenticationManagerInit
    /\ http = None
    /\ client = None
    /\ validation = None
    /\ database \in {EmptyDatabase, StoredBefore, AlertedBefore}
    /\ \E config \in IngestionConfig, device \in Devices, vendor \in DeviceVendors :
          /\ device.manufacturer \notin RegisteredManufacturers
                => vendor = Vendor(<<>>, {}, "none")
          /\ ingest = [pc |-> "start", config |-> config, device |-> device,
                       vendor |-> vendor]
    /\ loop = None
    /\ storage = None

\* the call of _ingest_device_data; before is the database it found
IngestDeviceData ==
    /\ ingest.pc = "start"
    /\ LET r == _ingest_device_data(database, ingest.config, ingest.device,
                                    ingest.vendor, now)
       IN  /\ database' = r.db
           /\ ingest' = [pc |-> "done", config |-> ingest.config,
                         device |-> ingest.device, vendor |-> ingest.vendor,
                         stats |-> r.stats, sink |-> r.sink, alerts |-> r.alerts,
                         stages |-> r.stages, before |-> database]
    /\ UNCHANGED <<now, all_credentials, providers, tokens, calls, ev, http, client,
                   validation, loop, storage>>

DeviceNext == IngestDeviceData

\* one device ingested once
DeviceSpec == DeviceInit /\ [][DeviceNext]_vars

\* --------------------------------- DataIngestionPipeline.ingest_patient_data
\* A patient with two devices of boston_scientific and one of medtronic is
\* ingested several times. The readings each device has had are the same in
\* every run; what fails is chosen anew for every run.

\* the runs of ingest_patient_data for the patient
MaxRuns == 2

\* list(self._api_clients.keys()): the manufacturers in their order of registration
_api_clients == <<"boston_scientific", "medtronic">>

\* what get_patient_devices of a manufacturer's client returns for the patient
PatientDevices(manufacturer) ==
    IF manufacturer = "boston_scientific"
    THEN <<PatientDevice("BSC-001", manufacturer), PatientDevice("BSC-002", manufacturer)>>
    ELSE <<PatientDevice("MDT-001", manufacturer)>>

DeviceIds == {"BSC-001", "BSC-002", "MDT-001"}

\* the first n readings of a device: in range at even minutes, above the
\* maximum at odd ones
RECURSIVE RecentReadings(_, _)
RecentReadings(device_id, n) ==
    IF n = 0 THEN <<>>
    ELSE Append(RecentReadings(device_id, n - 1),
                Reading(device_id, "PAT001",
                        Some(IF (n - 1) % 2 = 0 THEN 7200 ELSE 25000), "bpm", n - 1))

\* what fails in one run: the manufacturers whose get_patient_devices raises,
\* or one device with the point where its ingestion fails
RunFaults ==
    {[manufacturers |-> failing, device |-> None] : failing \in SUBSET RegisteredManufacturers}
    \cup {[manufacturers |-> {}, device |-> Some(<<d, f>>)] :
             d \in DeviceIds, f \in IngestionFaults \ {"none"}}
    \cup {[manufacturers |-> {"medtronic"}, device |-> Some(<<"BSC-001", f>>)] :
             f \in {"write", "get_device_alerts"}}

\* the fault of a run for one device
FaultOf(faults, device_id) ==
    IF faults.device # None /\ faults.device[1][1] = device_id
    THEN faults.device[1][2]
    ELSE "none"

\* mutant: the first manufacturer whose get_patient_devices raises ends the loop
RECURSIVE get_all_devices_until_failure(_, _, _)
get_all_devices_until_failure(manufacturers, failing, found) ==
    IF manufacturers = <<>> THEN found
    ELSE IF Head(manufacturers) \notin RegisteredManufacturers
    THEN get_all_devices_until_failure(Tail(manufacturers), failing, found)
    ELSE IF Head(manufacturers) \in failing
    THEN [found EXCEPT
            !.queried = Append(@, Head(manufacturers)),
            !.errors = Append(@, <<"Failed to get devices for patient", "PAT001",
                                   Head(manufacturers)>>)]
    ELSE get_all_devices_until_failure(
             Tail(manufacturers), failing,
             [found EXCEPT !.queried = Append(@, Head(manufacturers)),
                           !.all_devices = @ \o PatientDevices(Head(manufacturers))])

\* the variant that records an error for a manufacturer without a client
RECURSIVE get_all_devices_or_no_client(_, _, _)
get_all_devices_or_no_client(manufacturers, failing, found) ==
    IF manufacturers = <<>> THEN found
    ELSE IF Head(manufacturers) \notin RegisteredManufacturers
    THEN get_all_devices_or_no_client(
             Tail(manufacturers), failing,
             [found EXCEPT
                !.errors = Append(@, <<"No API client for manufacturer",
                                       Head(manufacturers)>>)])
    ELSE IF Head(manufacturers) \in failing
    THEN get_all_devices_or_no_client(
             Tail(manufacturers), failing,
             [found EXCEPT
                !.queried = Append(@, Head(manufacturers)),
                !.errors = Append(@, <<"Failed to get devices for patient", "PAT001",
                                       Head(manufacturers)>>)])
    ELSE get_all_devices_or_no_client(
             Tail(manufacturers), failing,
             [found EXCEPT !.queried = Append(@, Head(manufacturers)),
                           !.all_devices = @ \o PatientDevices(Head(manufacturers))])

\* ingest_patient_data, the loop over the manufacturers: the clients asked,
\* all_devices, and the errors recorded
RECURSIVE get_all_devices(_, _, _)
get_all_devices(manufacturers, failing, found) ==
    IF manufacturers = <<>> THEN found
    ELSE IF Head(manufacturers) \notin RegisteredManufacturers
    THEN get_all_devices(Tail(manufacturers), failing, found)
    ELSE IF Head(manufacturers) \in failing
    THEN get_all_devices(
             Tail(manufacturers), failing,
             [found EXCEPT
                !.queried = Append(@, Head(manufacturers)),
                !.errors = Append(@, <<"Failed to get devices for patient", "PAT001",
                                       Head(manufacturers)>>)])
    ELSE get_all_devices(
             Tail(manufacturers), failing,
             [found EXCEPT !.queried = Append(@, Head(manufacturers)),
                           !.all_devices = @ \o PatientDevices(Head(manufacturers))])

\* mutant: the errors of a device are not taken over
add_device_stats_without_errors(stats, device_stats) ==
    [stats EXCEPT
       !.total_readings = @ + device_stats.total_readings,
       !.successful_readings = @ + device_stats.successful_readings,
       !.failed_readings = @ + device_stats.failed_readings,
       !.duplicate_readings = @ + device_stats.duplicate_readings,
       !.validation_failures = @ + device_stats.validation_failures,
       !.alerts_generated = @ + device_stats.alerts_generated]

\* ingest_patient_data, the stats of a device added to those of the patient
add_device_stats(stats, device_stats) ==
    [stats EXCEPT
       !.total_readings = @ + device_stats.total_readings,
       !.successful_readings = @ + device_stats.successful_readings,
       !.failed_readings = @ + device_stats.failed_readings,
       !.duplicate_readings = @ + device_stats.duplicate_readings,
       !.validation_failures = @ + device_stats.validation_failures,
       !.alerts_generated = @ + device_stats.alerts_generated,
       !.errors = @ \o device_stats.errors]

\* a run of ingest_patient_data so far: the database, the stats of the patient,
\* and for each device ingested its stats and the list handed to
\* store_device_readings
Run(db, stats, processed) == [db |-> db, stats |-> stats, processed |-> processed]

\* a device ingested: its result joins the run
device_ingested(run, device, r) ==
    Run(r.db, add_device_stats(run.stats, r.stats),
        Append(run.processed,
               [device_id |-> device.device_id, stats |-> r.stats, sink |-> r.sink]))

\* the one element of a set of one element; a value computed once is bound by
\* x \in {value}
The(set) == CHOOSE x \in set : TRUE

\* ingest_patient_data, the loop over all_devices; history gives the number of
\* readings each device has had
RECURSIVE ingest_devices(_, _, _, _, _, _)
ingest_devices(run, config, devices, history, faults, t) ==
    IF devices = <<>> THEN run
    ELSE
        LET device == Head(devices)
            vendor == Vendor(RecentReadings(device.device_id, history[device.device_id]),
                             {}, FaultOf(faults, device.device_id))
        IN  The({ingest_devices(next, config, Tail(devices), history, faults, t) :
                    next \in {device_ingested(run, device, r) :
                                 r \in {_ingest_device_data(run.db, config, device,
                                                            vendor, t)}}})

\* manufacturers, or list(self._api_clients.keys()) when it is None
requested(manufacturers) ==
    IF manufacturers = None THEN _api_clients ELSE manufacturers[1]

\* DataIngestionPipeline.ingest_patient_data at time t for the manufacturers
\* given: what the run leaves, with the clients it asked
ingest_patient_data(db, config, manufacturers, history, faults, t) ==
    The({[db |-> run.db, stats |-> [run.stats EXCEPT !.end_time = Some(t)],
          processed |-> run.processed, queried |-> found.queried] :
            found \in {get_all_devices(requested(manufacturers), faults.manufacturers,
                                       [queried |-> <<>>, all_devices |-> <<>>,
                                        errors |-> <<>>])},
            run \in {ingest_devices(
                         Run(db, [NewStats EXCEPT !.errors =
                                     get_all_devices(requested(manufacturers), faults.manufacturers,
                                                     [queried |-> <<>>, all_devices |-> <<>>,
                                                      errors |-> <<>>]).errors], <<>>),
                         config,
                         get_all_devices(requested(manufacturers), faults.manufacturers,
                                         [queried |-> <<>>, all_devices |-> <<>>,
                                          errors |-> <<>>]).all_devices,
                         history, faults, t)}})

\* a rate as a fraction
Rate(num, den) == [num |-> num, den |-> den]

\* mutant: nothing fetched counts as full success
success_rate_full_when_empty(stats) ==
    IF stats.total_readings = 0 THEN Rate(100, 1)
    ELSE Rate(stats.successful_readings * 100, stats.total_readings)

\* IngestionStats.success_rate, in percent
success_rate(stats) ==
    IF stats.total_readings = 0 THEN Rate(0, 1)
    ELSE Rate(stats.successful_readings * 100, stats.total_readings)

\* the numbers of readings the devices of the patient have had
Histories == [DeviceIds -> 0..MaxReadings]

\* the configs of the runs for the patient: the default, and validation disabled
PatientConfigs == {config \in IngestionConfig : config.alert_threshold_violations}

\* a pipeline with both clients registered and an empty database, before
\* the first run for the patient
PatientInit ==
    /\ AuthenticationManagerInit
    /\ http = None
    /\ client = None
    /\ validation = None
    /\ database = EmptyDatabase
    /\ \E config \in PatientConfigs, history \in Histories :
          ingest = [pc |-> "idle", runs |-> 0, config |-> config, history |-> history]
    /\ loop = None
    /\ storage = None

\* a call of ingest_patient_data("PAT001", manufacturers), with the success_rate it logs; the
\* state keeps what the run before it left in device_readings and whether it
\* recorded an error
IngestPatientData(manufacturers, faults) ==
    /\ ingest.runs < MaxRuns
    /\ \E r \in {ingest_patient_data(database, ingest.config, manufacturers,
                                     ingest.history, faults, now)} :
           /\ \A key \in DOMAIN r.db.device_readings : r.db.device_readings[key] <= MaxRows
           /\ database' = r.db
           /\ ingest' = [pc |-> "done", runs |-> ingest.runs + 1,
                         config |-> ingest.config, history |-> ingest.history,
                         manufacturers |-> requested(manufacturers),
                         faults |-> faults, stats |-> r.stats,
                         success_rate |-> success_rate(r.stats),
                         processed |-> r.processed, queried |-> r.queried,
                         before |-> database.device_readings,
                         clean_before |-> ingest.pc = "done" /\ ingest.stats.errors = <<>>]
    /\ UNCHANGED <<now, all_credentials, providers, tokens, calls, ev, http, client,
                   validation, loop, storage>>

PatientNext == \E faults \in RunFaults : IngestPatientData(None, faults)

\* one patient ingested up to MaxRuns times
PatientSpec == PatientInit /\ [][PatientNext]_vars

\* the manufacturers of a request that names one without a client first and
\* the registered ones in the other order
RequestedManufacturers == <<"abbott", "medtronic", "boston_scientific">>

\* the patient is ingested for the manufacturers requested, with any fault, or
\* without manufacturers and without a fault
RequestNext ==
    \/ \E faults \in RunFaults : IngestPatientData(Some(RequestedManufacturers), faults)
    \/ IngestPatientData(None, [manufacturers |-> {}, device |-> None])

\* one patient ingested up to MaxRuns times on request
RequestSpec == PatientInit /\ [][RequestNext]_vars

\* ------------------------------ DataIngestionPipeline.run_continuous_ingestion
\* The loop is at the await of a patient's ingestion (pc "cycle", index the
\* patients done), at an await of asyncio.sleep (pc "sleep", seconds the
\* argument, handler whether the sleep is the one of the except clause), or
\* has been left (pc "stopped"); last is what it did last. While a patient is
\* awaited the task is suspended inside ingest_patient_data, at the await of
\* one of its devices; abandoned holds the devices that had been ingested when
\* a signal arrived there.

\* the cycles the loop starts
MaxCycles == 2

\* the seconds the except clause waits before the next cycle
RetrySeconds == 60

\* the values of interval_minutes: a minute, and the default
Intervals == {1, 60}

\* the lists patient_ids
PatientIds == {<<>>, <<"PAT001">>, <<"PAT001", "PAT001">>}

\* IngestionConfig(): validation_enabled and alert_threshold_violations True
DefaultConfig == [validation_enabled |-> TRUE, alert_threshold_violations |-> TRUE]

\* the readings the devices have had in the runs of the loop
LoopHistory == [d \in DeviceIds |-> 1]

\* what fails in the ingestion of a patient in the runs of the loop: nothing,
\* or get_patient_devices of every manufacturer
LoopFaults ==
    {[manufacturers |-> failing, device |-> None] : failing \in {{}, RegisteredManufacturers}}

\* the signals that end a task from outside
Signals == {"KeyboardInterrupt", "CancelledError"}

\* the top of the while loop: a cycle begins
cycle_started(l) ==
    [l EXCEPT !.pc = "cycle", !.index = 0, !.total_stats = NewStats, !.seconds = 0,
              !.handler = FALSE, !.cycles = @ + 1, !.last = "started"]

\* the body of the for loop after ingest_patient_data returned
patient_ingested(l, patient_stats) ==
    [l EXCEPT !.index = @ + 1,
              !.total_stats = add_device_stats(@, patient_stats),
              !.last = "ingested"]

\* the end of the try block: await asyncio.sleep(interval_minutes * 60)
cycle_completed(l, t) ==
    [l EXCEPT !.pc = "sleep", !.seconds = l.interval_minutes * 60, !.handler = FALSE,
              !.total_stats.end_time = Some(t), !.last = "completed"]

\* mutant: an exception in a cycle ends the loop
cycle_failed_stops(l) ==
    [l EXCEPT !.pc = "stopped", !.seconds = 0, !.last = "raised"]

\* except Exception: await asyncio.sleep(60)
cycle_failed(l) ==
    [l EXCEPT !.pc = "sleep", !.seconds = RetrySeconds, !.handler = TRUE, !.last = "raised"]

\* a signal arrives at the task: inside the try block KeyboardInterrupt is
\* caught and breaks the loop; any other case propagates out of the coroutine
interrupted(l, signal) ==
    [l EXCEPT !.pc = "stopped", !.seconds = 0, !.last = signal,
              !.exit = IF signal = "KeyboardInterrupt" /\ ~l.handler
                       THEN "break" ELSE "raised"]

\* the loop is suspended inside ingest_patient_data
AwaitingPatient(l) == l.pc = "cycle" /\ l.index < Len(l.patient_ids)

\* a signal arrives while ingest_patient_data awaits: neither its except
\* Exception nor that of _ingest_device_data catches it, so it leaves both
\* where they are and reaches the loop; done is the number of devices ingested
\* before
patient_interrupted(l, signal, done) ==
    [interrupted(l, signal) EXCEPT !.abandoned = Some(done)]

\* the database an ingestion of the patient leaves that got through the first
\* done of its devices
partly_ingested(db, config, history, done, t) ==
    ingest_devices(Run(db, NewStats, <<>>), config,
                   SubSeq(get_all_devices(_api_clients, {},
                                          [queried |-> <<>>, all_devices |-> <<>>,
                                           errors |-> <<>>]).all_devices, 1, done),
                   history, [manufacturers |-> {}, device |-> None], t).db

\* run_continuous_ingestion has been called and is at the top of its first cycle
LoopInit ==
    /\ AuthenticationManagerInit
    /\ http = None
    /\ client = None
    /\ validation = None
    /\ database = EmptyDatabase
    /\ ingest = None
    /\ storage = None
    /\ \E patient_ids \in PatientIds, interval_minutes \in Intervals :
          loop = [pc |-> "cycle", patient_ids |-> patient_ids,
                  interval_minutes |-> interval_minutes, index |-> 0,
                  total_stats |-> NewStats, seconds |-> 0, handler |-> FALSE,
                  cycles |-> 1, last |-> "started", exit |-> "", abandoned |-> None]

\* ingest_patient_data returns for the next patient of the cycle
LoopIngestPatient(faults) ==
    /\ loop.pc = "cycle"
    /\ loop.index < Len(loop.patient_ids)
    /\ \E r \in {ingest_patient_data(database, DefaultConfig, None, LoopHistory, faults, now)} :
          /\ database' = r.db
          /\ loop' = patient_ingested(loop, r.stats)
    /\ UNCHANGED <<now, all_credentials, providers, tokens, calls, ev, http, client,
                   validation, ingest, storage>>

\* every patient is done: the cycle is logged and the loop sleeps
CycleCompletes ==
    /\ loop.pc = "cycle"
    /\ loop.index = Len(loop.patient_ids)
    /\ loop' = cycle_completed(loop, now)
    /\ UNCHANGED <<now, all_credentials, providers, tokens, calls, ev, http, client,
                   validation, database, ingest, storage>>

\* a statement of the cycle raises an Exception
CycleRaises ==
    /\ loop.pc = "cycle"
    /\ loop' = cycle_failed(loop)
    /\ UNCHANGED <<now, all_credentials, providers, tokens, calls, ev, http, client,
                   validation, database, ingest, storage>>

\* asyncio.sleep returns and the while loop goes round
SleepEnds ==
    /\ loop.pc = "sleep"
    /\ loop.cycles < MaxCycles
    /\ loop' = cycle_started(loop)
    /\ UNCHANGED <<now, all_credentials, providers, tokens, calls, ev, http, client,
                   validation, database, ingest, storage>>

\* the task is interrupted or cancelled in a sleep or between two patients
Interrupt(signal) ==
    /\ loop.pc # "stopped"
    /\ ~AwaitingPatient(loop)
    /\ loop' = interrupted(loop, signal)
    /\ UNCHANGED <<now, all_credentials, providers, tokens, calls, ev, http, client,
                   validation, database, ingest, storage>>

\* the task is interrupted or cancelled while a patient is ingested
InterruptPatient(signal, done) ==
    /\ AwaitingPatient(loop)
    /\ database' = partly_ingested(database, DefaultConfig, LoopHistory, done, now)
    /\ loop' = patient_interrupted(loop, signal, done)
    /\ UNCHANGED <<now, all_credentials, providers, tokens, calls, ev, http, client,
                   validation, ingest, storage>>

LoopNext ==
    \/ \E faults \in LoopFaults : LoopIngestPatient(faults)
    \/ CycleCompletes
    \/ CycleRaises
    \/ SleepEnds
    \/ \E signal \in Signals : Interrupt(signal)
    \/ \E signal \in Signals, done \in 0..(Cardinality(DeviceIds) - 1) :
          InterruptPatient(signal, done)

\* run_continuous_ingestion for up to MaxCycles cycles
LoopSpec == LoopInit /\ [][LoopNext]_vars

\* ------------------------------------------------------ CredentialStorage

\* AuthCredentials, the dataclass: api_key and additional_params are Optional
AuthCredentials(manufacturer, client_id, client_secret, api_key, environment, additional_params) ==
    [manufacturer |-> manufacturer, client_id |-> client_id,
     client_secret |-> client_secret, api_key |-> api_key,
     environment |-> environment, additional_params |-> additional_params]

\* the values of a JSON text: null, a string, an object of strings
JsonNull == <<"null">>
JsonString(s) == <<"string", s>>
JsonObject(members) == <<"object", members>>

\* json.dumps and json.loads of an Optional[str]
dumps_optional(value) == IF value = None THEN JsonNull ELSE JsonString(value[1])
loads_optional(json) == IF json = JsonNull THEN None ELSE Some(json[2])

\* json.dumps and json.loads of an Optional[Dict[str, str]]
dumps_params(value) ==
    IF value = None THEN JsonNull
    ELSE JsonObject([k \in DOMAIN value[1] |-> JsonString(value[1][k])])
loads_params(json) ==
    IF json = JsonNull THEN None
    ELSE Some([k \in DOMAIN json[2] |-> json[2][k][2]])

\* json.dumps and json.loads of the dict kept for one manufacturer
dumps_entry(entry) ==
    [manufacturer |-> JsonString(entry.manufacturer),
     client_id |-> JsonString(entry.client_id),
     client_secret |-> JsonString(entry.client_secret),
     api_key |-> dumps_optional(entry.api_key),
     environment |-> JsonString(entry.environment),
     additional_params |-> dumps_params(entry.additional_params),
     stored_at |-> JsonString(entry.stored_at)]
loads_entry(json) ==
    [manufacturer |-> json.manufacturer[2], client_id |-> json.client_id[2],
     client_secret |-> json.client_secret[2],
     api_key |-> loads_optional(json.api_key),
     environment |-> json.environment[2],
     additional_params |-> loads_params(json.additional_params),
     stored_at |-> json.stored_at[2]]

\* json.dumps and json.loads of all_credentials, a dict keyed by manufacturer
json_dumps(credentials) == [m \in DOMAIN credentials |-> dumps_entry(credentials[m])]
json_loads(text) == [m \in DOMAIN text |-> loads_entry(text[m])]

\* Fernet: a token is readable with the key that wrote it and with no other
FernetKey == "credentials.key"
encrypt(key, data) == [key |-> key, data |-> data]
decrypt(key, token) ==
    IF token.key = key THEN Returned(token.data) ELSE Raised("InvalidToken")

\* CredentialStorage.__init__: the key file is created, no credentials file yet
NewStorage == [key |-> FernetKey, file |-> None]

\* CredentialStorage._load_all_credentials: {} when the file is missing, and
\* also when it cannot be decrypted
_load_all_credentials(st) ==
    IF st.file = None THEN <<>>
    ELSE LET decrypted_data == decrypt(st.key, st.file[1])
         IN  IF decrypted_data.exc # "" THEN <<>> ELSE json_loads(decrypted_data.ret)

\* the file written with json.dumps(all_credentials), encrypted
written(st, credentials) ==
    [st EXCEPT !.file = Some(encrypt(st.key, json_dumps(credentials)))]

\* the variant that writes the new entry alone
CredentialStorage_store_credentials_alone(st, manufacturer, credentials, t) ==
    written(st, [m \in {manufacturer} |-> credentials @@ [stored_at |-> t]])

\* CredentialStorage.store_credentials
CredentialStorage_store_credentials(st, manufacturer, credentials, t) ==
    LET all == _load_all_credentials(st)
        entry == credentials @@ [stored_at |-> t]
    IN  written(st, [m \in DOMAIN all \cup {manufacturer} |->
                        IF m = manufacturer THEN entry ELSE all[m]])

\* CredentialStorage.load_credentials: None, or the AuthCredentials of the entry
CredentialStorage_load_credentials(st, manufacturer) ==
    LET all == _load_all_credentials(st)
    IN  IF manufacturer \notin DOMAIN all THEN None
        ELSE LET cred_data == all[manufacturer]
             IN  Some(AuthCredentials(cred_data.manufacturer, cred_data.client_id,
                                      cred_data.client_secret, cred_data.api_key,
                                      cred_data.environment,
                                      cred_data.additional_params))

\* CredentialStorage.delete_credentials: the file is rewritten without the
\* entry, or removed with the last entry
CredentialStorage_delete_credentials(st, manufacturer) ==
    LET all == _load_all_credentials(st)
        rest == [m \in DOMAIN all \ {manufacturer} |-> all[m]]
    IN  IF manufacturer \notin DOMAIN all THEN st
        ELSE IF DOMAIN rest # {} THEN written(st, rest)
        ELSE [st EXCEPT !.file = None]

\* the credentials stored in the runs: what a request body of the API carries
StoredCredentials(manufacturer) ==
    { AuthCredentials(manufacturer, client_id, "test_client_secret", api_key,
                      environment, additional_params) :
        client_id \in {"test_client_id", "test_bsc_client_12345"},
        api_key \in {None, Some("test_api_key")},
        environment \in {"production", "sandbox"},
        additional_params \in {None, Some([region |-> "us-east-1", version |-> "v1"])} }

\* the storage of a new CredentialStorage; put is what was last stored for each
\* manufacturer and not deleted since, last the operation just made
CredentialInit ==
    /\ now = 0
    /\ all_credentials = None
    /\ providers = None
    /\ tokens = None
    /\ calls = None
    /\ ev = None
    /\ http = None
    /\ client = None
    /\ validation = None
    /\ database = None
    /\ ingest = None
    /\ loop = None
    /\ storage = [store |-> NewStorage, put |-> [m \in Manufacturers |-> None],
                  last |-> [op |-> "init", manufacturer |-> "", ret |-> None]]

\* store_credentials(manufacturer, credentials)
StorageStore(manufacturer, credentials) ==
    /\ storage' = [store |-> CredentialStorage_store_credentials(
                                 storage.store, manufacturer, credentials, now),
                   put |-> [storage.put EXCEPT ![manufacturer] = Some(credentials)],
                   last |-> [op |-> "store", manufacturer |-> manufacturer,
                             ret |-> None]]
    /\ UNCHANGED <<now, all_credentials, providers, tokens, calls, ev, http, client,
                   validation, database, ingest, loop>>

\* load_credentials(manufacturer)
StorageLoad(manufacturer) ==
    /\ storage' = [storage EXCEPT
                     !.last = [op |-> "load", manufacturer |-> manufacturer,
                               ret |-> CredentialStorage_load_credentials(
                                           storage.store, manufacturer)]]
    /\ UNCHANGED <<now, all_credentials, providers, tokens, calls, ev, http, client,
                   validation, database, ingest, loop>>

\* delete_credentials(manufacturer)
StorageDelete(manufacturer) ==
    /\ storage' = [store |-> CredentialStorage_delete_credentials(storage.store,
                                                                   manufacturer),
                   put |-> [storage.put EXCEPT ![manufacturer] = None],
                   last |-> [op |-> "delete", manufacturer |-> manufacturer,
                             ret |-> None]]
    /\ UNCHANGED <<now, all_credentials, providers, tokens, calls, ev, http, client,
                   validation, database, ingest, loop>>

CredentialNext ==
    \/ \E m \in Manufacturers : \E c \in StoredCredentials(m) : StorageStore(m, c)
    \/ \E m \in Manufacturers : StorageLoad(m)
    \/ \E m \in Manufacturers : StorageDelete(m)

CredentialSpec == CredentialInit /\ [][CredentialNext]_vars

\* ---------------------------------------------- DatabaseConnection properties

\* C24 as stated: device_readings never holds two rows with the same
\* (device_id, reading_type, timestamp), and a batch of two readings with one
\* key stored into a table without that key returns 1.
C24_NoDuplicateRows ==
    /\ \A key \in DOMAIN database.device_readings : database.device_readings[key] <= 1
    /\ ( /\ ingest # None
         /\ ingest.exc = ""
         /\ Len(ingest.readings) = 2
         /\ ReadingKey(ingest.readings[1]) = ReadingKey(ingest.readings[2])
         /\ RowCount(ingest.before, ReadingKey(ingest.readings[1])) = 0 )
       => ingest.ret = 1

\* ------------------------------------------- _ingest_device_data properties

\* a device with a registered client has been ingested
DeviceIngested ==
    /\ ingest # None
    /\ ingest.pc = "done"
    /\ ingest.device.manufacturer \in RegisteredManufacturers

\* the readings the vendor returned to the ingestion
FetchedReadings == ingest.vendor.readings

\* a reading with a missing field, a value outside its range or another unit
\* than its range's
HasViolation(r) ==
    \/ presence_violations(r) # <<>>
    \/ Ranged(r) /\ (OutOfRange(r) \/ r.unit # NORMAL_RANGES[r.reading_type].unit)

\* a reading with a value strictly below the min or above the max of its type
RangeViolation(r) == Ranged(r) /\ OutOfRange(r)

\* C21 as stated: with validation_enabled, when neither the vendor nor the
\* database fails, the list handed to store_device_readings is the fetched
\* readings without those that have a violation, validation_failures is the
\* number of those, and failed_readings counts none.
C21_ViolatingReadingsDropped ==
    ( /\ DeviceIngested
      /\ ingest.config.validation_enabled
      /\ ingest.vendor.fault = "none"
      /\ FetchedReadings # <<>> )
    => /\ ingest.sink = Some(SelectSeq(FetchedReadings, LAMBDA r : ~HasViolation(r)))
       /\ ingest.stats.validation_failures =
              Cardinality({i \in 1..Len(FetchedReadings) : HasViolation(FetchedReadings[i])})
       /\ ingest.stats.failed_readings = 0

\* C22 as stated: with alert_threshold_violations, when neither the vendor nor
\* the database fails, one alert of alert_type "threshold_violation" is
\* synthesized and stored for every fetched reading outside its range, dropped
\* by validation or not; a single fetched heart_rate of 250 bpm yields one
\* alert of severity medium.
C22_AlertsForAllFetchedReadings ==
    ( /\ DeviceIngested
      /\ ingest.config.alert_threshold_violations
      /\ ingest.vendor.fault = "none"
      /\ \A i \in 1..Len(FetchedReadings) : FetchedReadings[i].value # None )
    => /\ Len(ingest.alerts) =
              Cardinality({i \in 1..Len(FetchedReadings) : RangeViolation(FetchedReadings[i])})
       /\ \A i \in 1..Len(ingest.alerts) :
             /\ ingest.alerts[i].alert_type = "threshold_violation"
             /\ ingest.alerts[i].alert_id \in database.device_alerts
       /\ FetchedReadings = <<Reading("BSC-001", "PAT001", Some(25000), "bpm", 1)>>
             => Len(ingest.alerts) = 1 /\ ingest.alerts[1].severity = "medium"

\* C23: every synthesized alert is of a reading with a value strictly below
\* the min or strictly above the max of its reading_type and of the violation
\* that says so: a missing field, another unit, or a value equal to min or max
\* makes no alert.
C23_AlertsOnlyOutsideRange ==
    DeviceIngested =>
        \A i \in 1..Len(ingest.alerts) :
            LET alert == ingest.alerts[i]
                range_info == NORMAL_RANGES[alert.reading.reading_type]
            IN  /\ alert.alert_type = "threshold_violation"
                /\ alert.reading \in {ingest.sink[1][j] : j \in 1..Len(ingest.sink[1])}
                /\ alert.reading.value # None
                /\ \/ /\ alert.violation.kind = "below normal range"
                      /\ alert.reading.value[1] < range_info.min
                   \/ /\ alert.violation.kind = "above normal range"
                      /\ alert.reading.value[1] > range_info.max
                /\ Cardinality({j \in 1..Len(ingest.alerts) :
                                   ingest.alerts[j].reading = alert.reading})
                      <= Cardinality({j \in 1..Len(ingest.sink[1]) :
                                         ingest.sink[1][j] = alert.reading})

\* one alert was synthesized from two readings, one above the maximum and one
\* at the maximum
C23_Witness ==
    /\ DeviceIngested
    /\ Len(ingest.alerts) = 1
    /\ ingest.alerts[1].reading.value = Some(25000)
    /\ ingest.sink = Some(<<Reading("BSC-001", "PAT001", Some(20000), "bpm", 0),
                            Reading("BSC-001", "PAT001", Some(25000), "bpm", 1)>>)
    /\ ingest.alerts[1].alert_id \in database.device_alerts

\* ------------------------------------------- ingest_patient_data properties

\* a run of ingest_patient_data has ended
PatientIngested == ingest # None /\ ingest.pc = "done"

\* the readings handed to store_device_readings in a run
RECURSIVE SunkReadings(_)
SunkReadings(processed) ==
    IF processed = <<>> THEN 0
    ELSE (IF Head(processed).sink = None THEN 0 ELSE Len(Head(processed).sink[1]))
         + SunkReadings(Tail(processed))

\* the rows of a table of device_readings
RECURSIVE Rows(_, _)
Rows(rows, keys) ==
    IF keys = {} THEN 0
    ELSE LET key == CHOOSE k \in keys : TRUE
         IN  rows[key] + Rows(rows, keys \ {key})

\* the rows the run inserted into device_readings
RowsInserted ==
    Rows(database.device_readings, DOMAIN database.device_readings)
    - Rows(ingest.before, DOMAIN ingest.before)

\* the devices of the manufacturers whose get_patient_devices did not raise
RECURSIVE DevicesFound(_, _)
DevicesFound(manufacturers, failing) ==
    IF manufacturers = <<>> THEN <<>>
    ELSE (IF Head(manufacturers) \in failing THEN <<>> ELSE PatientDevices(Head(manufacturers)))
         \o DevicesFound(Tail(manufacturers), failing)

\* the manufacturers of the run that have a client, as requested
RegisteredRequested ==
    SelectSeq(ingest.manufacturers, LAMBDA m : m \in RegisteredManufacturers)

\* every device found in the run was ingested, in order
AllDevicesProcessed ==
    LET found == DevicesFound(RegisteredRequested, ingest.faults.manufacturers)
    IN  /\ Len(ingest.processed) = Len(found)
        /\ \A i \in 1..Len(found) : ingest.processed[i].device_id = found[i].device_id

\* C25 as stated: a run that follows a run without errors and records no error
\* itself leaves device_readings as it found it and reports successful_readings
\* 0, with duplicate_readings the number of readings handed to
\* store_device_readings.
C25_SecondRunIdempotent ==
    (PatientIngested /\ ingest.clean_before /\ ingest.stats.errors = <<>>)
    => /\ database.device_readings = ingest.before
       /\ ingest.stats.successful_readings = 0
       /\ ingest.stats.duplicate_readings = SunkReadings(ingest.processed)

\* C26: when get_patient_devices raises for a manufacturer, one error is
\* recorded for it, every manufacturer of the run with a client is still asked
\* and every device the others return is ingested; with medtronic raising, both devices
\* of boston_scientific are ingested and errors is not empty.
C26_ManufacturerFailureIsolated ==
    PatientIngested =>
        /\ ingest.queried = RegisteredRequested
        /\ AllDevicesProcessed
        /\ \A m \in RegisteredManufacturers :
              Cardinality({i \in 1..Len(ingest.stats.errors) :
                              ingest.stats.errors[i]
                                  = <<"Failed to get devices for patient", "PAT001", m>>})
                  = (IF m \in ingest.faults.manufacturers THEN 1 ELSE 0)
        /\ ingest.faults.manufacturers = {"medtronic"}
              => /\ Len(ingest.stats.errors) >= 1
                 /\ Len(ingest.processed) = 2
                 /\ ingest.processed[1].device_id = "BSC-001"
                 /\ ingest.processed[2].device_id = "BSC-002"

\* get_patient_devices raised for boston_scientific, and the device of
\* medtronic was ingested
C26_Witness ==
    /\ PatientIngested
    /\ ingest.faults.manufacturers = {"boston_scientific"}
    /\ Len(ingest.processed) = 1
    /\ ingest.processed[1].device_id = "MDT-001"
    /\ ingest.processed[1].stats.successful_readings >= 1

\* the ingestion of a processed device raised at the fault of the run
DeviceRaised(p) ==
    LET fault == FaultOf(ingest.faults, p.device_id)
    IN  \/ fault \in {"get_recent_readings", "get_device_alerts"}
        \/ fault = "write" /\ p.sink # None /\ p.sink[1] # <<>>

\* C27: when a step of _ingest_device_data raises, the device's stats hold one
\* error and failed_readings = total_readings, and the other devices found are
\* still ingested; the errors and failed_readings of the devices are in the
\* stats of the patient.
C27_DeviceFailureIsolated ==
    PatientIngested =>
        /\ AllDevicesProcessed
        /\ \A i \in 1..Len(ingest.processed) :
              LET p == ingest.processed[i]
              IN  /\ DeviceRaised(p) => p.stats.errors # <<>>
                  /\ p.stats.errors # <<>> =>
                        /\ p.stats.errors
                               = <<<<"Error ingesting data for device", p.device_id>>>>
                        /\ p.stats.failed_readings = p.stats.total_readings
                        /\ \E j \in 1..Len(ingest.stats.errors) :
                              ingest.stats.errors[j] = p.stats.errors[1]
                        /\ ingest.stats.failed_readings >= p.stats.failed_readings

\* store_device_readings raised for the readings of BSC-001, and the two
\* devices after it were ingested
C27_Witness ==
    /\ PatientIngested
    /\ ingest.faults.device = Some(<<"BSC-001", "write">>)
    /\ Len(ingest.processed) = 3
    /\ ingest.processed[1].stats.total_readings >= 1
    /\ ingest.processed[1].stats.failed_readings = ingest.processed[1].stats.total_readings
    /\ ingest.processed[3].stats.successful_readings >= 1

\* a manufacturer or a device failed in the run
Degraded ==
    \/ ingest.faults.manufacturers # {}
    \/ \E i \in 1..Len(ingest.processed) : ingest.processed[i].stats.errors # <<>>

\* success_rate < 100
BelowFull(rate) == rate.num < 100 * rate.den

\* C28 as stated: a degraded run returns stats with end_time set, errors not
\* empty and a success_rate below 100.
C28_DegradedBelowFull ==
    (PatientIngested /\ Degraded)
    => /\ ingest.stats.end_time # None
       /\ ingest.stats.errors # <<>>
       /\ BelowFull(ingest.success_rate)

\* C28, amended: a degraded run returns stats with end_time set and errors not
\* empty; its success_rate is at most 100, and below 100 exactly when nothing
\* was fetched or fewer rows were inserted than readings fetched.
C28_DegradedReturnsStats ==
    (PatientIngested /\ Degraded)
    => /\ ingest.stats.end_time = Some(now)
       /\ ingest.stats.errors # <<>>
       /\ ingest.success_rate.num <= 100 * ingest.success_rate.den
       /\ BelowFull(ingest.success_rate)
             <=> \/ ingest.stats.total_readings = 0
                 \/ RowsInserted < ingest.stats.total_readings

\* a degraded run with success_rate 100: get_device_alerts raised for a device
\* after its readings were stored
C28_Witness ==
    /\ PatientIngested
    /\ Degraded
    /\ ingest.faults.manufacturers = {}
    /\ ingest.faults.device # None
    /\ ingest.faults.device[1][2] = "get_device_alerts"
    /\ ingest.stats.total_readings >= 1
    /\ ~BelowFull(ingest.success_rate)

C30_LoopEndsOnlyBySignal ==
    /\ loop.pc = "stopped" <=> loop.last \in Signals
    /\ loop.last = "completed" =>
          /\ loop.pc = "sleep"
          /\ loop.seconds = loop.interval_minutes * 60
          /\ loop.index = Len(loop.patient_ids)
    /\ loop.last = "raised" => loop.pc = "sleep" /\ loop.seconds = 60
    /\ loop.last = "started" => loop.pc = "cycle" /\ loop.index = 0
    /\ loop.last = "ingested" => loop.pc = "cycle" /\ loop.index >= 1
    /\ loop.pc = "sleep" => loop.last \in {"completed", "raised"}

\* a second cycle over two patients was completed, with readings that the
\* first cycle had stored
C30_Witness ==
    /\ loop.cycles = 2
    /\ loop.last = "completed"
    /\ loop.patient_ids = <<"PAT001", "PAT001">>
    /\ loop.interval_minutes = 60
    /\ loop.seconds = 3600
    /\ loop.total_stats.duplicate_readings >= 1

\* C31 as stated: a signal ends the loop in a sleep or between two patients,
\* and when it arrives while a patient is ingested the loop stops only after
\* that patient's ingestion has returned: no ingestion is abandoned.
C31_CurrentPatientFinishes ==
    loop.pc = "stopped" => loop.abandoned = None

\* sub is seq with some of its elements left out
RECURSIVE IsSubsequence(_, _)
IsSubsequence(sub, seq) ==
    IF sub = <<>> THEN TRUE
    ELSE IF seq = <<>> THEN FALSE
    ELSE IF Head(sub) = Head(seq) THEN IsSubsequence(Tail(sub), Tail(seq))
    ELSE IsSubsequence(sub, Tail(seq))

\* C32: the list handed to store_device_readings is the fetched list with some
\* readings left out, in the order of the vendor's response; it is the fetched
\* list itself when validation is disabled.
C32_OrderPreserved ==
    (DeviceIngested /\ ingest.sink # None)
    => /\ IsSubsequence(ingest.sink[1], FetchedReadings)
       /\ ~ingest.config.validation_enabled => ingest.sink[1] = FetchedReadings

\* of three fetched readings the second was dropped by validation and the
\* first and third were handed on in their order
C32_Witness ==
    /\ DeviceIngested
    /\ ingest.config.validation_enabled
    /\ FetchedReadings = MixedBatch
    /\ ingest.sink = Some(<<MixedBatch[1], MixedBatch[3]>>)
    /\ ingest.stats.validation_failures = 1

\* ------------------------------------------------ CredentialStorage properties

\* C33: load_credentials(m) returns the client_id, client_secret, api_key,
\* environment and additional params last stored for m and not deleted since,
\* and None when there are none; storing or deleting for one manufacturer
\* leaves what is loaded for the others as it was.
C33_StoreRoundTrip ==
    /\ \A m \in Manufacturers :
          CredentialStorage_load_credentials(storage.store, m) = storage.put[m]
    /\ storage.last.op = "load" => storage.last.ret = storage.put[storage.last.manufacturer]

\* credentials with an api key and additional params are loaded for one
\* manufacturer after those of the other were stored and deleted
C33_Witness ==
    /\ storage.last.op = "load" /\ storage.last.manufacturer = "boston_scientific"
    /\ storage.last.ret # None
    /\ storage.last.ret[1].api_key = Some("test_api_key")
    /\ storage.last.ret[1].additional_params # None
    /\ storage.last.ret[1].environment = "sandbox"
    /\ storage.put["medtronic"] = None
    /\ storage.store.file # None

\* ---------------------------------------- _ingest_device_data, the counters

\* the list handed to store_device_readings, empty when it was not called
PassedReadings == IF ingest.sink = None THEN <<>> ELSE ingest.sink[1]

\* the count store_device_readings returned for that list
InsertedReadings ==
    store_device_readings(ingest.before, PassedReadings,
                          ReadingsFault(ingest.vendor.fault)).ret

\* C34: after an ingestion of a device that raised nothing,
\* successful_readings is the count the database reported inserted,
\* duplicate_readings the rest of the readings handed to it, failed_readings
\* is 0 and total_readings = successful + duplicate + validation_failures.
C34_CountsAddUp ==
    (DeviceIngested /\ ingest.stats.errors = <<>>)
    => /\ ingest.stats.successful_readings = InsertedReadings
       /\ ingest.stats.duplicate_readings = Len(PassedReadings) - InsertedReadings
       /\ ingest.stats.failed_readings = 0
       /\ ingest.stats.total_readings
             = ingest.stats.successful_readings + ingest.stats.duplicate_readings
               + ingest.stats.validation_failures

\* of three readings fetched one fails validation, one is stored and one is a
\* duplicate of a row
C34_Witness ==
    /\ DeviceIngested /\ ingest.stats.errors = <<>>
    /\ ingest.stats.total_readings = 3
    /\ ingest.stats.validation_failures = 1
    /\ ingest.stats.duplicate_readings = 1
    /\ ingest.stats.successful_readings = 1

\* the alerts inserted into device_alerts during the ingestion
InsertedAlerts == database.device_alerts \ ingest.before.device_alerts

LaterStageFailed ==
    /\ DeviceIngested
    /\ ingest.sink # None
    /\ \/ ingest.vendor.fault = "get_device_alerts"
       \/ /\ ingest.vendor.fault = "alert_write"
          /\ (ingest.alerts # <<>> \/ ingest.vendor.device_alerts # {})

\* C36: when a stage after the persistence of the readings raises, the rows
\* inserted by store_device_readings stay in the table, and the device is
\* reported as failed.
C36_PersistedReadingsRemain ==
    LaterStageFailed
    => /\ database.device_readings
            = store_device_readings(ingest.before, PassedReadings, "none").db.device_readings
       /\ ingest.stats.errors # <<>>
       /\ ingest.stats.failed_readings = ingest.stats.total_readings

\* two readings were inserted and the alerts of the vendor could not be
\* fetched
C36_Witness ==
    /\ LaterStageFailed
    /\ ingest.vendor.fault = "get_device_alerts"
    /\ ingest.before = EmptyDatabase
    /\ ingest.stats.successful_readings = 2
    /\ \A i \in 1..2 : RowCount(database.device_readings, ReadingKey(PassedReadings[i])) = 1
    /\ ingest.stats.errors # <<>>

\* ------------------------------------------ _ingest_device_data, the stages

\* the calls of an ingestion in the order of the code
StageOrder ==
    <<"get_recent_readings", "validate_readings_batch", "store_device_readings",
      "_generate_threshold_alerts", "store_threshold_alerts", "get_device_alerts",
      "store_device_alerts">>

\* the calls the ingestion made
StagesRun == {ingest.stages[i] : i \in 1..Len(ingest.stages)}

\* the calls the fault of the ingestion makes raise; validation and synthesis
\* raise on a reading without a value
RaisingStages ==
    {"validate_readings_batch", "_generate_threshold_alerts"}
    \cup (CASE ingest.vendor.fault = "get_recent_readings" -> {"get_recent_readings"}
            [] ingest.vendor.fault = "write" -> {"store_device_readings"}
            [] ingest.vendor.fault = "alert_write" -> {"store_threshold_alerts",
                                                       "store_device_alerts"}
            [] ingest.vendor.fault = "get_device_alerts" -> {"get_device_alerts"}
            [] OTHER -> {})

\* C37: the ingestion of a device makes its calls in the order fetch, validate,
\* persist, synthesize and persist the threshold alerts, fetch and persist the
\* alerts of the vendor; the call that raises is the last one made, so the
\* alerts of the vendor are not fetched after the readings could not be stored;
\* an ingestion that does not fail fetches them, also when no reading came.
C37_StagesInOrder ==
    DeviceIngested
    => /\ IsSubsequence(ingest.stages, StageOrder)
       /\ ingest.stages # <<>> /\ Head(ingest.stages) = "get_recent_readings"
       /\ ingest.stats.errors # <<>>
             => ingest.stages[Len(ingest.stages)] \in RaisingStages
       /\ (ingest.vendor.fault = "write" /\ PassedReadings # <<>>)
             => /\ ingest.stats.errors # <<>>
                /\ ingest.stages = Stored
       /\ ingest.stats.errors = <<>> => "get_device_alerts" \in StagesRun
       /\ (FetchedReadings = <<>> /\ ingest.vendor.fault # "get_recent_readings")
             => ingest.stages[2] = "get_device_alerts"

\* the readings could not be stored: the ingestion ends there
C37_Witness ==
    /\ DeviceIngested
    /\ ingest.vendor.fault = "write"
    /\ Len(PassedReadings) = 2
    /\ ingest.vendor.device_alerts # {}
    /\ ingest.stages = Stored
    /\ "get_device_alerts" \notin StagesRun
    /\ ingest.stats.errors # <<>>

\* ------------------------------------------ ingest_patient_data, the sums

\* the sum of a counter over the devices ingested
RECURSIVE Total(_, _)
Total(processed, counter) ==
    IF processed = <<>> THEN 0
    ELSE Head(processed).stats[counter] + Total(Tail(processed), counter)

\* the errors of the devices ingested, in the order of the devices
RECURSIVE DeviceErrors(_)
DeviceErrors(processed) ==
    IF processed = <<>> THEN <<>>
    ELSE Head(processed).stats.errors \o DeviceErrors(Tail(processed))

\* the errors of the manufacturers whose get_patient_devices raised, in the
\* order of the request
RECURSIVE DiscoveryErrors(_)
DiscoveryErrors(manufacturers) ==
    IF manufacturers = <<>> THEN <<>>
    ELSE (IF Head(manufacturers) \in ingest.faults.manufacturers
          THEN <<<<"Failed to get devices for patient", "PAT001", Head(manufacturers)>>>>
          ELSE <<>>)
         \o DiscoveryErrors(Tail(manufacturers))

Counters ==
    {"total_readings", "successful_readings", "failed_readings", "duplicate_readings",
     "validation_failures", "alerts_generated"}

\* C38: the counters of a patient's stats are the sums of those of the devices
\* ingested, and its errors are those of the manufacturers' discovery followed
\* by those of the devices in the order of the devices; a requested
\* manufacturer without a client is not asked and adds neither a device nor an
\* error.
C38_StatsAreSums ==
    PatientIngested
    => /\ AllDevicesProcessed
       /\ \A counter \in Counters :
             ingest.stats[counter] = Total(ingest.processed, counter)
       /\ ingest.stats.errors
             = DiscoveryErrors(RegisteredRequested) \o DeviceErrors(ingest.processed)
       /\ \A i \in 1..Len(ingest.manufacturers) :
             ingest.manufacturers[i] \notin RegisteredManufacturers
             => /\ \A j \in 1..Len(ingest.queried) :
                      ingest.queried[j] # ingest.manufacturers[i]
                /\ \A j \in 1..Len(ingest.stats.errors) :
                      ingest.stats.errors[j][Len(ingest.stats.errors[j])]
                          # ingest.manufacturers[i]

\* abbott, medtronic and boston_scientific are requested: abbott has no client,
\* medtronic raises, and of the two devices of boston_scientific the first
\* fails after its readings were stored
C38_Witness ==
    /\ PatientIngested
    /\ ingest.manufacturers = RequestedManufacturers
    /\ ingest.faults.manufacturers = {"medtronic"}
    /\ Len(ingest.processed) = 2
    /\ ingest.stats.errors
          = <<<<"Failed to get devices for patient", "PAT001", "medtronic">>,
              <<"Error ingesting data for device", "BSC-001">>>>
    /\ ingest.processed[1].stats.total_readings = 2
    /\ ingest.processed[2].stats.total_readings = 2
    /\ ingest.stats.total_readings = 4
    /\ ingest.stats.failed_readings = 2

\* ------------------------------------------- get_valid_token, fresh tokens

\* C39 as stated: a token get_valid_token returns, from the cache or from
\* provider.authenticate, has no expires_at or now + 5 minutes < expires_at at
\* the time it is returned.
C39_ReturnedOutsideBuffer ==
    (ev.op \in {"get_valid_token", "authenticate_returns"} /\ ev.done /\ ev.ret # None)
    => OutsideBuffer(ev.ret[1], now)

\* ------------------------------------- _ingest_device_data, a failed device

\* C40 as stated: in the stats of an ingested device successful_readings +
\* failed_readings is at most total_readings, and a device whose ingestion
\* raised reports no successful reading.
C40_FailedDeviceHasNoSuccess ==
    DeviceIngested
    => /\ ingest.stats.successful_readings + ingest.stats.failed_readings
             <= ingest.stats.total_readings
       /\ ingest.stats.errors # <<>> => ingest.stats.successful_readings = 0

====
